---- MODULE Spec2Model ----
(***************************************************************************)
(* Model of the workout journal (src/app.py, src/auth/auth.py) and of its  *)
(* history endpoint (src/backend/history_api.py) and customization         *)
(* endpoints (src/backend/customizations_api.py).                          *)
(*                                                                         *)
(* The Streamlit script of src/app.py is executed from top to bottom once  *)
(* per UI event ("script run").  One action of this model is one script    *)
(* run, triggered by one UI event; st.rerun() ends the run and schedules   *)
(* the next one, st.stop() and an uncaught exception end it.               *)
(*                                                                         *)
(* Encodings.  A date object is a positive integer d, the ISO string that  *)
(* isoformat() makes of it is -d, and "no date" (None) is 0.  A session id *)
(* is a positive integer, None is NoId, the empty string is EmptyStr.      *)
(* None for strings is the string "None".                                  *)
(***************************************************************************)
EXTENDS Integers, Sequences, FiniteSets, Bags, TLC

\* ---------------------------------------------------------------- bounds
MaxSessions == 2     \* rows of workout_sessions
MaxEntries  == 2     \* rows of workout_entries
MaxRows     == 2     \* buffered workout_rows
MaxHistoryRows == 3  \* rows of workout_sessions that the history endpoint reads

\* ------------------------------------------------------------- constants
None     == "None"
NoId     == 0
NoDate   == 0
EmptyStr == -1

ADD_EXERCISE_OPTION == "+ Add custom exercise"
ADD_DAYTYPE_OPTION == "+ Add custom day type"

\* Two exercises that daytype_to_exercises offers for "push" and for "arm"
Exercises == {"tricep overhead press", "tricep extension"}
Weights   == {40}
Reps      == {10}
Users     == {"u1"}

\* normalize_date: date objects become ISO strings, other values are kept.
isoformat(d) == 0 - d
normalize_date(value) == IF value > 0 THEN isoformat(value) ELSE value

\* ------------------------------------------------------------- variables
VARIABLES
    session_state,     \* st.session_state of the current browser session
    cookie_manager,    \* the cookies as the CookieManager reads them (queued writes included)
    browser_cookies,   \* the cookies committed to the browser by save()
    cookies_ready,     \* cookie_manager.ready()
    workout_sessions,  \* table workout_sessions; a row's id is its index
    workout_entries,   \* table workout_entries
    screen,            \* what the last script run rendered
    control,           \* "start": a new browser session; "rerun": a rerun is scheduled;
                       \* "idle": waiting for a UI event
    hist,              \* history variables, read by the properties only
    backend,           \* GET /history: the day, the table, the request and the response
    registry           \* the tables user_daytypes and user_exercises, and the requests
                       \* to the customization endpoints that are being handled

vars == <<session_state, cookie_manager, browser_cookies, cookies_ready,
          workout_sessions, workout_entries, screen, control, hist, backend, registry>>

FreshSessionState ==
    [ user                   |-> None,
      access_token           |-> None,
      auth_notice            |-> FALSE,
      pending_cookie_save    |-> FALSE,
      cookie_save_ran        |-> FALSE,
      has_workout_completed  |-> FALSE,
      workout_completed      |-> FALSE,
      workout_notice         |-> FALSE,
      workout_rows           |-> <<>>,
      active_daytype         |-> None,
      active_date            |-> NoDate,
      active_session_id      |-> NoId,
      last_session_id        |-> NoId,
      show_history           |-> FALSE,
      history_data           |-> FALSE,
      add_workout_clicked    |-> FALSE,
      finish_workout_clicked |-> FALSE,
      done_clicked           |-> FALSE ]

NoCookies ==
    [ access_token |-> None, workout_completed |-> "absent", last_session_id |-> NoId ]

BlankScreen ==
    [ login |-> FALSE, account |-> FALSE, form |-> FALSE, finish_enabled |-> FALSE,
      done |-> FALSE, panel |-> "none", msgs |-> {}, exception |-> FALSE ]

NoFinish == [ sid |-> NoId, rows |-> <<>>, ok |-> FALSE ]

InitHist ==
    [ did        |-> {},       \* what the last script run went through
      onlyStarts |-> TRUE,     \* no Finish, Done, logout or restart has happened yet
      started |-> FALSE,       \* a workout was submitted since the last Done or restart
      writesOk   |-> TRUE,     \* every row buffered since the buffer was last empty was persisted
      fin        |-> NoFinish, \* the session id and buffer the last Finish saw
      seq        |-> "none",   \* "finished" after Finish, "reset" after a Done that follows it
      lost       |-> NoId,     \* the session id that was active when the UI process restarted
      sub        |-> <<>>,     \* the exercise, weight and rep submitted in the last script run
      saves      |-> 0 ]       \* how often the cookies were saved in the last script run

\* No request has reached the history endpoint
NoResponse == [ total_sessions |-> 0, total_days |-> 0, sessions_by_day |-> <<>> ]
NoDay == <<>>     \* from_date = None, to_date = None
NoRequest == [ period |-> None, from_date |-> NoDay, to_date |-> NoDay ]
NoBackend ==
    [ today |-> <<2024, 1, 8>>, rows |-> <<>>, request |-> NoRequest,
      answered |-> FALSE,     \* the request has been answered
      response |-> NoResponse ]

\* No request is being handled by the customization endpoints, the tables are empty
NoCall == [ pc |-> "idle", request |-> [ op |-> "none" ], response |-> [ status |-> 0 ] ]
NoRegistry ==
    [ user_daytypes |-> <<>>, user_exercises |-> <<>>, calls |-> <<NoCall, NoCall>> ]

Init ==
    /\ session_state = FreshSessionState
    /\ cookie_manager = NoCookies
    /\ browser_cookies = NoCookies
    /\ cookies_ready = FALSE
    /\ workout_sessions = <<>>
    /\ workout_entries = <<>>
    /\ screen = BlankScreen
    /\ control = "start"
    /\ hist = InitHist
    /\ backend = NoBackend
    /\ registry = NoRegistry

\* ------------------------------------------------ the machine of one run
(***************************************************************************)
(* A script run transforms a machine record m:                             *)
(*   ss, cm, bc, ready : session_state, cookie_manager, browser cookies,   *)
(*                       cookies_ready                                     *)
(*   S, E              : workout_sessions, workout_entries                 *)
(*   scr               : the screen rendered so far                        *)
(*   st                : "running", or how the run ended: "rerun", "stop", *)
(*                       "exception"                                       *)
(*   loc               : the script's local variables                      *)
(*   h                 : the history variables                             *)
(* The inputs of a run are a record in: the event, the widget values and   *)
(* the answers of the identity service and the store.                      *)
(***************************************************************************)
Say(m, msg) == [m EXCEPT !.scr.msgs = @ \cup {msg}]
Note(m, what) == [m EXCEPT !.h.did = @ \cup {what}]
\* The script runs top to bottom: each step acts on the result of the step
\* before it, which is computed once
Stage(Step(_), M) == { Step(m) : m \in M }
Result(M) == CHOOSE m \in M : TRUE

Raise(m) == [m EXCEPT !.st = "exception", !.scr.exception = TRUE]

\* src/app.py:54 safe_rerun
safe_rerun(m) == [m EXCEPT !.st = "rerun"]

\* src/app.py:431 queue_cookie_save
queue_cookie_save(m) ==
    IF m.ready THEN [m EXCEPT !.ss.pending_cookie_save = TRUE] ELSE m

\* Mutant: the save of the auth module ignores the guard of the run
SafeCookieSaveUnguarded(m) ==
    IF ~m.ready THEN m
    ELSE [m EXCEPT !.ss.cookie_save_ran = TRUE, !.bc = m.cm, !.h.saves = @ + 1]

\* src/auth/auth.py:28 _safe_cookie_save
SafeCookieSave(m) ==
    IF ~m.ready THEN m
    ELSE IF m.ss.cookie_save_ran THEN m
    ELSE [m EXCEPT !.ss.cookie_save_ran = TRUE, !.bc = m.cm, !.h.saves = @ + 1]

\* src/auth/auth.py:60-70: the tokens of a session are stored and saved as cookies
StoreToken(m, token) ==
    IF m.ready
    THEN SafeCookieSave([m EXCEPT !.ss.access_token = token, !.cm.access_token = token])
    ELSE [m EXCEPT !.ss.access_token = token]

\* src/auth/auth.py:40 _store_user; token = None stands for session = None
StoreUser(m, user, token) ==
    IF token = None
    THEN [m EXCEPT !.ss.user = user]
    ELSE StoreToken([m EXCEPT !.ss.user = user], token)

\* src/auth/auth.py:159-164 and 266-271: the tokens are dropped, cookies included
ClearTokens(m) ==
    IF m.ready
    THEN SafeCookieSave([m EXCEPT !.ss.access_token = None, !.cm.access_token = None])
    ELSE [m EXCEPT !.ss.access_token = None]

\* src/auth/auth.py:90 _get_access_token (the refresh token is stored and
\* cleared together with the access token, and is read the same way)
GetAccessToken(m) ==
    IF m.ss.access_token # None THEN m.ss.access_token
    ELSE IF m.ready THEN m.cm.access_token
    ELSE None

\* src/auth/auth.py:97 ensure_access_token: the state it leaves behind
EnsureAccessToken(m, refreshed) ==
    IF GetAccessToken(m) # None /\ refreshed
    THEN StoreUser(m, GetAccessToken(m), GetAccessToken(m))
    ELSE m

\* src/auth/auth.py:144 restore_session
RestoreSession(m, ok) ==
    IF m.ss.user # None THEN m
    ELSE IF GetAccessToken(m) = None THEN m
    ELSE IF ok THEN StoreUser(m, GetAccessToken(m), GetAccessToken(m))
    ELSE ClearTokens(m)

SetAuthNotice(m) == [m EXCEPT !.ss.auth_notice = TRUE]

\* src/auth/auth.py:248 handle_login
HandleLogin(m, u, answer) ==
    IF answer = "fail" THEN Say(m, "error: login failed")
    ELSE safe_rerun(SetAuthNotice(StoreUser(m, u, IF answer = "session" THEN u ELSE None)))

\* src/auth/auth.py:260 handle_logout
HandleLogout(m, ok) ==
    IF ~ok THEN Say(m, "error: logout failed")
    ELSE safe_rerun(SetAuthNotice(
             ClearTokens([m EXCEPT !.ss.user = None, !.h.onlyStarts = FALSE])))

\* src/auth/auth.py:116 fetch_history, and the button of src/app.py:542
WorkoutHistoryButton(m, ok) ==
    IF GetAccessToken(m) = None THEN Say(m, "error: log in again")
    ELSE IF ~ok THEN Say(m, "error: history")
    ELSE [m EXCEPT !.ss.history_data = TRUE, !.ss.show_history = TRUE]

\* -------------------------------------------------------------- the store
\* A buffered row of st.session_state["workout_rows"] (src/app.py:1073-1081)
Row(date, daytype, exercise, weight, rep) ==
    [ Date |-> date, Daytype |-> daytype, Exercise |-> exercise, Weight |-> weight, Rep |-> rep ]

\* The row of workout_sessions inserted at src/app.py:1106-1112
SessionRow(user_id, date, daytype) ==
    [ user_id |-> user_id, date |-> isoformat(date), daytype |-> daytype, completed_at |-> FALSE ]

\* The row of workout_entries inserted at src/app.py:1131-1138
EntryRow(session_id, exercise, weight, rep) ==
    [ session_id |-> session_id, exercise_name |-> exercise, weight |-> weight, rep |-> rep ]

Max(S) == CHOOSE x \in S : \A y \in S : y <= x

Reverse(seq) == [ i \in 1..Len(seq) |-> seq[Len(seq) + 1 - i] ]

\* src/app.py:1116-1126: the latest session of (user_id, date, daytype), or None
LatestSession(S, user_id, date, daytype) ==
    LET found == { i \in 1..Len(S) : /\ S[i].user_id = user_id
                                     /\ S[i].date = isoformat(date)
                                     /\ S[i].daytype = daytype }
    IN  IF found = {} THEN NoId ELSE Max(found)

\* src/app.py:634-640: the session of that id and user, or None
SessionLookup(S, id, user_id) ==
    IF id \in 1..Len(S) /\ S[id].user_id = user_id THEN id ELSE NoId

\* Mutant: the entries are selected without the session filter
EntriesOfAnySession(E, session_id, order) ==
    IF order = "asc" THEN E ELSE Reverse(E)

\* src/app.py:643-647: the entries of a session, in the order the store returns them
EntriesOf(E, session_id, order) ==
    LET mine == SelectSeq(E, LAMBDA e : e.session_id = session_id)
    IN  IF order = "asc" THEN mine ELSE Reverse(mine)

\* src/app.py:648-658: the rows rebuilt from a session and its entries
RestoredRows(session, entries) ==
    [ i \in 1..Len(entries) |->
        Row(normalize_date(session.date), session.daytype,
            entries[i].exercise_name, entries[i].weight, entries[i].rep) ]

\* ------------------------------------------------- the steps of the script
\* src/app.py:406-412: a pending auth notice is shown and the script reruns
AuthNotice(m) ==
    IF m.st # "running" THEN m
    ELSE IF m.ss.auth_notice
         THEN safe_rerun(Say([m EXCEPT !.ss.auth_notice = FALSE], "success: auth notice"))
         ELSE m

\* Mutant: the queued save is forgotten at the start of a run
CookieSetupForgetsPending(m) ==
    IF m.st # "running" THEN m
    ELSE [m EXCEPT !.ss.cookie_save_ran = FALSE, !.ss.pending_cookie_save = FALSE]

\* src/app.py:419-428: cookie readiness and the per-run save guard
CookieSetup(m) ==
    IF m.st # "running" THEN m
    ELSE [m EXCEPT !.ss.cookie_save_ran = FALSE]

\* src/app.py:447
RestoreSessionStep(m, in) ==
    IF m.st # "running" THEN m ELSE RestoreSession(m, in.ok)

\* src/app.py:539-547: the account expander and the history button
HeaderButtons(m, in) ==
    IF in.ev = "logout" THEN HandleLogout(m, in.ok)
    ELSE IF in.ev = "history" THEN WorkoutHistoryButton(m, in.ok)
    ELSE m

\* src/app.py:527-549: the header
Header(m, in) ==
    IF m.st # "running" THEN m
    ELSE IF m.ss.user = None THEN m
    ELSE HeaderButtons([m EXCEPT !.scr.account = TRUE, !.loc.is_logged_in = TRUE], in)

\* src/app.py:552-553: the login form of a logged-out user
LoginForm(m, in) ==
    IF m.st # "running" THEN m
    ELSE IF m.loc.is_logged_in THEN m
    ELSE IF in.ev = "login"
    THEN HandleLogin([m EXCEPT !.scr.login = TRUE], in.user, in.answer)
    ELSE [m EXCEPT !.scr.login = TRUE]

\* src/app.py:556-558: st.stop() for a logged-out user
LoginGate(m) ==
    IF m.st # "running" THEN m
    ELSE IF m.ss.user = None THEN [m EXCEPT !.st = "stop"]
    ELSE m

\* src/app.py:561: the completion notice is read and cleared
PopNotice(m) ==
    [m EXCEPT !.loc.workout_notice = m.ss.workout_notice, !.ss.workout_notice = FALSE]

\* src/app.py:597-601: the completion flag of a new session comes from the cookie
LoadCompleted(m) ==
    IF m.ss.has_workout_completed THEN m
    ELSE [m EXCEPT !.ss.has_workout_completed = TRUE,
                   !.ss.workout_completed = (m.ready /\ m.cm.workout_completed = "true")]

\* src/app.py:602-606: the notice marks the workout completed
ApplyNotice(m) ==
    IF ~m.loc.workout_notice THEN m
    ELSE IF m.ready
    THEN queue_cookie_save([m EXCEPT !.ss.workout_completed = TRUE,
                                     !.cm.workout_completed = "true"])
    ELSE [m EXCEPT !.ss.workout_completed = TRUE]

\* Mutant: the entry form stays while the history is open
ShowFormWithHistory(m) ==
    [m EXCEPT !.loc.show_form = ~m.ss.workout_completed]

\* src/app.py:607-610
ShowForm(m) ==
    [m EXCEPT !.loc.show_form = (~m.ss.workout_completed /\ ~m.ss.show_history)]

\* src/app.py:561-610: the completion notice, the completion flag and show_form
CompletionFlag(m) ==
    IF m.st # "running" THEN m
    ELSE ShowForm(ApplyNotice(LoadCompleted(PopNotice(m))))

\* src/app.py:616-618: the last session id, from the session state or the cookie
SessionHint(ss, cm, ready) ==
    IF ss.last_session_id > 0 THEN ss.last_session_id
    ELSE IF ready THEN cm.last_session_id
    ELSE ss.last_session_id

\* src/app.py:641-659: the rows of the session found are put into workout_rows
RestoreRows(m, in, id) ==
    IF id = NoId THEN m
    ELSE IF in.lookup = "raise_entries" THEN Raise(m)
    ELSE Note([m EXCEPT !.ss.workout_rows =
                   RestoredRows(m.S[id], EntriesOf(m.E, id, in.order))],
              "restore")

\* src/app.py:616-640: the session of the last session id is looked up
RestoreFetch(m, in) ==
    IF ~(/\ GetAccessToken(m) # None
         /\ m.ss.user # None
         /\ SessionHint(m.ss, m.cm, m.ready) > 0)
    THEN m
    ELSE IF in.lookup = "raise_session" THEN Raise(m)
    ELSE RestoreRows(m, in, SessionLookup(m.S, SessionHint(m.ss, m.cm, m.ready), m.ss.user))

\* src/app.py:613-659: restore the workout summary after a refresh
RestoreSummary(m, in) ==
    IF m.st # "running" THEN m
    ELSE IF ~(m.ss.workout_completed /\ m.ss.workout_rows = <<>>) THEN m
    ELSE RestoreFetch(EnsureAccessToken(m, in.refreshed), in)

\* src/app.py:778-786: the active values read for this run
ReadActive(m) ==
    IF m.st # "running" THEN m
    ELSE [m EXCEPT !.loc.active_daytype = m.ss.active_daytype,
                   !.loc.active_date = m.ss.active_date,
                   !.loc.is_active_session =
                       (m.ss.active_daytype # None /\ m.ss.active_date # NoDate)]

\* src/app.py:1029-1045: mark the session completed and confirm it
MarkCompleted(m, last_session_id, update) ==
    IF update = "raise"
    THEN Note(Say(m, "error: failed to mark session complete"), "store call failed")
    ELSE IF update = "zero" \/ last_session_id \notin 1..Len(m.S)
    THEN Note(Say(m, "warning: no session rows updated"), "zero rows updated")
    ELSE IF update = "stale"
    THEN Note(Say(m, "warning: completed_at is still empty"), "read-back empty")
    ELSE Note([m EXCEPT !.S[last_session_id].completed_at = TRUE], "completed")

\* src/app.py:1046-1048: the active identifiers are cleared
ClearActive(m) ==
    [m EXCEPT !.ss.active_daytype = None,
              !.ss.active_date = NoDate,
              !.ss.active_session_id = NoId]

\* src/app.py:1051: the value written to the last_session_id cookie
CookieValue(last_session_id) ==
    IF last_session_id # NoId THEN last_session_id ELSE EmptyStr

\* Mutant: the hint is read from the session state after the identifiers are cleared
RecordHintAfterClear(m, last_session_id) ==
    IF m.ready
    THEN queue_cookie_save([m EXCEPT !.ss.last_session_id = m.ss.active_session_id,
                                     !.cm.last_session_id = CookieValue(m.ss.active_session_id)])
    ELSE [m EXCEPT !.ss.last_session_id = m.ss.active_session_id]

\* src/app.py:1049-1052: the last session id is recorded
RecordHint(m, last_session_id) ==
    IF m.ready
    THEN queue_cookie_save([m EXCEPT !.ss.last_session_id = last_session_id,
                                     !.cm.last_session_id = CookieValue(last_session_id)])
    ELSE [m EXCEPT !.ss.last_session_id = last_session_id]

\* src/app.py:1012-1017: the session id is read, the workout is marked completed
FinishBegin(m) ==
    IF m.ready
    THEN queue_cookie_save([m EXCEPT !.loc.last_session_id = m.ss.active_session_id,
                                     !.ss.show_history = FALSE,
                                     !.ss.workout_completed = TRUE,
                                     !.cm.workout_completed = "true"])
    ELSE [m EXCEPT !.loc.last_session_id = m.ss.active_session_id,
                   !.ss.show_history = FALSE,
                   !.ss.workout_completed = TRUE]

\* src/app.py:1019-1045: the completion is written when a token and a session id exist
FinishUpdate(m, in) ==
    IF GetAccessToken(m) # None /\ m.loc.last_session_id # NoId
    THEN MarkCompleted(m, m.loc.last_session_id, in.update)
    ELSE m

\* Mutant: the active identifiers survive the Finish
FinishEndKeepsActive(m) == RecordHint(m, m.loc.last_session_id)

\* src/app.py:1046-1052
FinishEnd(m) == RecordHint(ClearActive(m), m.loc.last_session_id)

\* src/app.py:1053-1055
FinishFlags(m) ==
    safe_rerun([m EXCEPT !.ss.workout_notice = TRUE, !.ss.finish_workout_clicked = FALSE])

\* What the properties remember of a Finish
FinishSeen(m) ==
    [m EXCEPT !.h.did = @ \cup {"finish"},
              !.h.fin = [ sid |-> m.ss.active_session_id, rows |-> m.ss.workout_rows,
                          ok |-> m.h.writesOk ],
              !.h.seq = "finished",
              !.h.lost = NoId,
              !.h.onlyStarts = FALSE]

\* src/app.py:1009-1055: the Finish Workout handler
FinishHandler(m, in) ==
    FinishFlags(FinishEnd(FinishUpdate(
        EnsureAccessToken(FinishBegin(FinishSeen(m)), in.refreshed), in)))

\* Mutant: the placeholder guard is missing
NeverPlaceholder(entry_exercise) == FALSE

\* src/app.py:1006-1008: the placeholder exercise cannot be submitted
IsPlaceholder(entry_exercise) == entry_exercise = ADD_EXERCISE_OPTION

\* src/app.py:988-1008: submitted, unless the exercise is the placeholder
Submitted(m, in) ==
    IF m.ss.add_workout_clicked /\ IsPlaceholder(in.exercise)
    THEN Say([m EXCEPT !.loc.submitted = FALSE], "error: select or save an exercise")
    ELSE [m EXCEPT !.loc.submitted = m.ss.add_workout_clicked]

\* What the properties remember of a click with the placeholder exercise
PlaceholderSeen(m, in) ==
    IF m.ss.add_workout_clicked /\ in.exercise = ADD_EXERCISE_OPTION
    THEN IF in.daytype = ADD_DAYTYPE_OPTION
         THEN Note(Note(m, "placeholder"), "placeholder day type")
         ELSE Note(m, "placeholder")
    ELSE m

\* src/app.py:1009
FinishClicked(m, in) ==
    IF m.ss.finish_workout_clicked THEN FinishHandler(m, in) ELSE m

\* src/app.py:822-1055: the entry form, with the Finish Workout handler
Form(m, in) ==
    IF m.st # "running" THEN m
    ELSE IF ~m.loc.show_form THEN [m EXCEPT !.loc.submitted = FALSE]
    ELSE FinishClicked(Submitted(PlaceholderSeen(
             [m EXCEPT !.scr.form = TRUE,
                       !.scr.finish_enabled = (Len(m.ss.workout_rows) # 0)], in), in), in)

\* src/app.py:1060-1064: the history is closed and the completion flag cleared
SubmitBegin(m) ==
    IF m.ready
    THEN queue_cookie_save([m EXCEPT !.ss.show_history = FALSE,
                                     !.ss.workout_completed = FALSE,
                                     !.cm.workout_completed = "false"])
    ELSE [m EXCEPT !.ss.show_history = FALSE, !.ss.workout_completed = FALSE]

\* What the properties remember of a submitted workout
SubmitSeen(m, in) ==
    [m EXCEPT !.h.did = @ \cup (IF /\ m.loc.is_active_session
                                   /\ (\/ in.daytype # m.loc.active_daytype
                                       \/ in.date # m.loc.active_date)
                                THEN {"submit", "drift"} ELSE {"submit"}),
              !.h.fin = NoFinish,
              !.h.lost = NoId,
              !.h.sub = <<in.exercise, in.weight, in.rep>>,
              !.h.started = TRUE,
              !.h.seq = "none"]

\* Mutant: a new session pins the day type only
PinActiveDaytypeOnly(m, in) ==
    IF m.loc.is_active_session THEN m
    ELSE [m EXCEPT !.ss.active_daytype = in.daytype,
                   !.loc.active_daytype = in.daytype]

\* src/app.py:1065-1069: a new session pins the day type and the date
PinActive(m, in) ==
    IF m.loc.is_active_session THEN m
    ELSE [m EXCEPT !.ss.active_daytype = in.daytype,
                   !.ss.active_date = in.date,
                   !.loc.active_daytype = in.daytype,
                   !.loc.active_date = in.date]

\* Mutant: the day type of the UI is used
UnlockedDaytype(m, in) == in.daytype

\* src/app.py:1071: the day type of an active session is locked
LockedDaytype(m, in) ==
    IF m.loc.active_daytype # None THEN m.loc.active_daytype ELSE in.daytype

\* src/app.py:1072: the date of an active session is locked
LockedDate(m, in) ==
    IF m.loc.active_date # NoDate THEN m.loc.active_date ELSE in.date

\* Mutant: the row is buffered only when the write will be attempted
AppendRowWhenAuthenticated(m, in) ==
    IF GetAccessToken(m) = None THEN m
    ELSE [m EXCEPT !.ss.workout_rows =
             Append(@, Row(normalize_date(LockedDate(m, in)), LockedDaytype(m, in),
                           in.exercise, in.weight, in.rep))]

\* src/app.py:1073-1081: the row is appended to workout_rows
AppendRow(m, in) ==
    [m EXCEPT !.ss.workout_rows =
        Append(@, Row(normalize_date(LockedDate(m, in)), LockedDaytype(m, in),
                      in.exercise, in.weight, in.rep))]

\* Mutant: every submitted workout inserts a session
AlwaysNeedsSession(session_id) == TRUE

\* src/app.py:1105: a session is inserted only when no session id is active
NeedsSession(session_id) == session_id = NoId

Failed(m) == [m EXCEPT !.h.writesOk = FALSE]

\* What the properties remember of a store call that raised
StoreFailed(m) == Note(Failed(m), "store call failed")

\* src/app.py:1106-1114: the session insert
InsertSession(m, in) ==
    IF in.insert = "raise" THEN Raise(StoreFailed(m))
    ELSE IF in.insert = "nodata" THEN Failed(m)
    ELSE IF Len(m.S) >= MaxSessions THEN [m EXCEPT !.loc.overflow = TRUE]
    ELSE IF in.insert = "id"
    THEN [m EXCEPT !.S = Append(@, SessionRow(m.ss.user, LockedDate(m, in), LockedDaytype(m, in))),
                   !.loc.session_id = Len(m.S) + 1]
    ELSE [m EXCEPT !.S = Append(@, SessionRow(m.ss.user, LockedDate(m, in), LockedDaytype(m, in)))]

\* src/app.py:1115-1126: the fallback to the latest session of the day
FallbackSelect(m, in) ==
    IF m.st # "running" \/ m.loc.overflow \/ in.insert = "id" THEN m
    ELSE IF in.select = "raise" THEN Raise(StoreFailed(m))
    ELSE [m EXCEPT !.loc.session_id =
             LatestSession(m.S, m.ss.user, LockedDate(m, in), LockedDaytype(m, in))]

\* src/app.py:1127-1128: the session id found becomes the active one
StoreSessionId(m) ==
    IF m.st # "running" \/ m.loc.overflow THEN m
    ELSE IF m.loc.session_id # NoId
    THEN [m EXCEPT !.ss.active_session_id = m.loc.session_id]
    ELSE Note(Failed(m), "no session id")

\* src/app.py:1104-1128: the session id of the entry, inserting the session first
ResolveSession(m, in) ==
    IF NeedsSession(m.loc.session_id)
    THEN Result(Stage(StoreSessionId,
                Stage(LAMBDA x : FallbackSelect(x, in), {InsertSession(m, in)})))
    ELSE m

\* Mutant: the entry is inserted whether or not a session id is known
InsertEntryWithoutSession(m, in) ==
    IF m.st # "running" \/ m.loc.overflow THEN m
    ELSE IF in.entry = "raise" THEN Say(StoreFailed(m), "error: database insert failed")
    ELSE IF Len(m.E) >= MaxEntries THEN [m EXCEPT !.loc.overflow = TRUE]
    ELSE Note([m EXCEPT !.E = Append(@, EntryRow(m.loc.session_id, in.exercise,
                                                  in.weight, in.rep))],
              "persisted")

\* src/app.py:1129-1140: the entry is inserted for the session
InsertEntry(m, in) ==
    IF m.st # "running" \/ m.loc.overflow \/ m.loc.session_id = NoId THEN m
    ELSE IF in.entry = "raise" THEN Say(StoreFailed(m), "error: database insert failed")
    ELSE IF Len(m.E) >= MaxEntries THEN [m EXCEPT !.loc.overflow = TRUE]
    ELSE Note([m EXCEPT !.E = Append(@, EntryRow(m.loc.session_id, in.exercise,
                                                  in.weight, in.rep))],
              "persisted")

\* Mutant: the active session id is not read before the inserts
PersistWriteForgetsSession(m, in) ==
    IF GetAccessToken(m) = None
    THEN Note(Say(Failed(m), "error: not authenticated for inserts"), "no credential")
    ELSE InsertEntry(ResolveSession([m EXCEPT !.loc.session_id = NoId], in), in)

\* src/app.py:1086-1140: with an access token the session and the entry are written
PersistWrite(m, in) ==
    IF GetAccessToken(m) = None
    THEN Note(Say(Failed(m), "error: not authenticated for inserts"), "no credential")
    ELSE InsertEntry(ResolveSession([m EXCEPT !.loc.session_id = m.ss.active_session_id], in), in)

\* Mutant: the session and the entry are written without an access token
PersistWithoutToken(m, in) ==
    InsertEntry(ResolveSession([m EXCEPT !.loc.session_id = m.ss.active_session_id], in), in)

\* src/app.py:1084-1140: the row is written to the store
Persist(m, in) == PersistWrite(EnsureAccessToken(m, in.refreshed), in)

\* src/app.py:1141: the click flag is reset after handling
ResetClick(m) ==
    IF m.st = "running" THEN [m EXCEPT !.ss.add_workout_clicked = FALSE] ELSE m

\* src/app.py:1059-1141: the submitted workout is buffered and persisted
Submit(m, in) ==
    IF Len(m.ss.workout_rows) >= MaxRows THEN [m EXCEPT !.loc.overflow = TRUE]
    ELSE Result(Stage(ResetClick,
                Stage(LAMBDA x : Persist(x, in),
                Stage(LAMBDA x : AppendRow(x, in),
                Stage(LAMBDA x : PinActive(x, in),
                Stage(SubmitBegin, {SubmitSeen(m, in)}))))))

\* src/app.py:1059-1143
SubmitBlock(m, in) ==
    IF m.st # "running" THEN m
    ELSE IF m.loc.submitted THEN Submit(m, in)
    ELSE [m EXCEPT !.ss.add_workout_clicked = FALSE]

\* src/app.py:1146-1176: the table of entries, the summary, or "Summary not available yet."
Render(m) ==
    IF m.st # "running" THEN m
    ELSE IF m.ss.workout_rows # <<>> /\ ~m.ss.show_history
    THEN IF m.loc.show_form
         THEN [m EXCEPT !.scr.panel = "recent"]
         ELSE [m EXCEPT !.scr.panel = "summary", !.scr.done = TRUE]
    ELSE IF ~m.loc.show_form
    THEN Say([m EXCEPT !.scr.panel = "unavailable", !.scr.done = TRUE],
             "info: summary not available yet")
    ELSE m

\* What the properties remember of a Done
DoneSeen(m) ==
    [m EXCEPT !.h.did = @ \cup {"done"},
              !.h.seq = IF m.h.seq = "finished" THEN "reset" ELSE "none",
              !.h.fin = NoFinish,
              !.h.lost = NoId,
              !.h.writesOk = TRUE,
              !.h.started = FALSE,
              !.h.onlyStarts = FALSE]

\* Mutant: the buffered rows survive the Done
DoneKeepsRows(m) ==
    ClearActive([m EXCEPT !.ss.workout_completed = FALSE,
                          !.ss.show_history = FALSE,
                          !.ss.history_data = FALSE])

\* src/app.py:1179-1185: the workflow state is cleared
DoneClear(m) ==
    ClearActive([m EXCEPT !.ss.workout_completed = FALSE,
                          !.ss.workout_rows = <<>>,
                          !.ss.show_history = FALSE,
                          !.ss.history_data = FALSE])

\* Mutant: the Done handler deletes the entries of the workout
DoneEndDeletesEntries(m) ==
    IF m.ready
    THEN safe_rerun(queue_cookie_save([m EXCEPT !.cm.workout_completed = "absent",
                                                !.ss.done_clicked = FALSE,
                                                !.E = <<>>]))
    ELSE safe_rerun([m EXCEPT !.ss.done_clicked = FALSE, !.E = <<>>])

\* src/app.py:1186-1190: the completion cookie is cleared, the script reruns
DoneEnd(m) ==
    IF m.ready
    THEN safe_rerun(queue_cookie_save([m EXCEPT !.cm.workout_completed = "absent",
                                                !.ss.done_clicked = FALSE]))
    ELSE safe_rerun([m EXCEPT !.ss.done_clicked = FALSE])

\* src/app.py:1178-1190: the Done handler
DoneHandler(m) ==
    IF m.st # "running" THEN m
    ELSE IF ~m.ss.done_clicked THEN m
    ELSE DoneEnd(DoneClear(DoneSeen(m)))

\* src/app.py:1192-1197: the single cookie save of a run
CookieSave(m) ==
    IF m.st # "running" THEN m
    ELSE IF m.ss.pending_cookie_save /\ ~m.ss.cookie_save_ran
    THEN [m EXCEPT !.ss.cookie_save_ran = TRUE,
                   !.ss.pending_cookie_save = FALSE,
                   !.bc = m.cm,
                   !.h.saves = @ + 1]
    ELSE m

\* ------------------------------------------------------------ a script run
NoLocals ==
    [ is_logged_in |-> FALSE, workout_notice |-> FALSE, show_form |-> FALSE,
      submitted |-> FALSE, active_daytype |-> None, active_date |-> NoDate,
      is_active_session |-> FALSE, last_session_id |-> NoId, session_id |-> NoId,
      overflow |-> FALSE ]

\* The on_click callbacks run before the script (src/app.py:960, 977, 1168)
Callback(ss, ev) ==
    IF ev = "add" THEN [ss EXCEPT !.add_workout_clicked = TRUE]
    ELSE IF ev = "finish" THEN [ss EXCEPT !.finish_workout_clicked = TRUE]
    ELSE IF ev = "done" THEN [ss EXCEPT !.done_clicked = TRUE]
    ELSE ss

StartOfRun(in) ==
    [ ss |-> Callback(session_state, in.ev),
      cm |-> cookie_manager,
      bc |-> browser_cookies,
      ready |-> in.ready,
      S |-> workout_sessions,
      E |-> workout_entries,
      scr |-> BlankScreen,
      st |-> "running",
      loc |-> NoLocals,
      h |-> [hist EXCEPT !.did = {}, !.sub = <<>>, !.saves = 0,
                         !.seq = IF in.ev \in {"script", "done", "finish"} THEN @ ELSE "none"] ]

\* src/app.py:406-558: the run up to the login gate
Authenticated(in) ==
    Result(Stage(LoginGate,
           Stage(LAMBDA m : LoginForm(m, in),
           Stage(LAMBDA m : Header(m, in),
           Stage(LAMBDA m : RestoreSessionStep(m, in),
           Stage(CookieSetup,
           Stage(AuthNotice, {StartOfRun(in)})))))))

\* src/app.py:561-786: the completion flag, the restored summary, the active values
Prepared(in) ==
    Result(Stage(ReadActive,
           Stage(LAMBDA m : RestoreSummary(m, in),
           Stage(CompletionFlag, {Authenticated(in)}))))

\* src/app.py:406-1197, top to bottom
Script(in) ==
    Result(Stage(CookieSave,
           Stage(DoneHandler,
           Stage(Render,
           Stage(LAMBDA m : SubmitBlock(m, in),
           Stage(LAMBDA m : Form(m, in), {Prepared(in)}))))))

\* ------------------------------------------------- the inputs of a run
\* What the store answers to the session insert, the fallback select and the
\* entry insert of src/app.py:1106-1138
PersistAnswers ==
    { [insert |-> "id",           select |-> "rows",  entry |-> "ok"],
      [insert |-> "id",           select |-> "rows",  entry |-> "raise"],
      [insert |-> "nodata_added", select |-> "rows",  entry |-> "ok"],
      [insert |-> "nodata_added", select |-> "raise", entry |-> "ok"],
      [insert |-> "nodata",       select |-> "rows",  entry |-> "ok"],
      [insert |-> "nodata",       select |-> "raise", entry |-> "ok"],
      [insert |-> "raise",        select |-> "rows",  entry |-> "ok"] }

\* What the store answers to the two selects of src/app.py:634-647
LookupAnswers ==
    { [lookup |-> "rows",          order |-> "asc"],
      [lookup |-> "rows",          order |-> "desc"],
      [lookup |-> "raise_session", order |-> "asc"],
      [lookup |-> "raise_entries", order |-> "asc"] }

\* What the store answers to the update of src/app.py:1030-1041
UpdateAnswers == {"rows", "zero", "stale", "raise"}

\* The values of the day type, date, exercise, weight and rep widgets
Selections == { <<"push", 1>>, <<"arm", 2>> }
Widgets ==
    { [ daytype |-> s[1], date |-> s[2], exercise |-> e, weight |-> w, rep |-> r ] :
        s \in Selections, e \in Exercises \cup {ADD_EXERCISE_OPTION},
        w \in Weights, r \in Reps }

\* Mutant: the exercises of a day type are offered with the placeholder day type
ExerciseOptionsOfAnyDaytype(daytype) == Exercises \cup {ADD_EXERCISE_OPTION}

\* src/app.py:881-916: the options of the exercise selector.  The placeholder
\* day type has no key and no exercises: only the placeholder exercise is left.
ExerciseOptions(daytype) ==
    IF daytype = ADD_DAYTYPE_OPTION THEN {ADD_EXERCISE_OPTION}
    ELSE Exercises \cup {ADD_EXERCISE_OPTION}

\* The widget values with the placeholder day type among the day types
PlaceholderWidgets ==
    { w \in [ daytype : {"push", ADD_DAYTYPE_OPTION}, date : {1},
              exercise : {"tricep extension", ADD_EXERCISE_OPTION},
              weight : Weights, rep : Reps ] :
        w.exercise \in ExerciseOptions(w.daytype) }

\* What the identity service answers to a login: a user with a session, a user
\* without one, or an error (src/auth/auth.py:251-252)
LoginAnswers == {"session", "nosession", "fail"}

OneOf(S) == { CHOOSE x \in S : TRUE }

HasToken == session_state.access_token # None \/ cookie_manager.access_token # None
MaySubmit(ev) == ev = "add" \/ session_state.add_workout_clicked
MayRestore ==
    /\ HasToken
    /\ session_state.workout_rows = <<>>
    /\ session_state.has_workout_completed => session_state.workout_completed

\* The first run of a browser session finds the cookie component not ready; its
\* value arrives with the rerun the component triggers (src/app.py:419-423)
FirstRun == control = "start"

(***************************************************************************)
(* An environment env names what the user may enter and what the identity  *)
(* service and the store may answer.  Inputs(ev, env) are the inputs of a  *)
(* run on the event ev; an answer is enumerated only where the run asks.   *)
(***************************************************************************)
AnyEnv ==
    [ users   |-> Users,
      login   |-> LoginAnswers,
      widgets |-> Widgets,
      persist |-> PersistAnswers,
      update  |-> UpdateAnswers,
      lookup  |-> LookupAnswers,
      refresh |-> BOOLEAN,
      ok      |-> BOOLEAN ]

AllInputs(ev, env) ==
    { [ ev |-> ev, ready |-> ~FirstRun, user |-> u, answer |-> a, ok |-> k, refreshed |-> f,
        daytype |-> w.daytype, date |-> w.date, exercise |-> w.exercise,
        weight |-> w.weight, rep |-> w.rep,
        insert |-> p.insert, select |-> p.select, entry |-> p.entry,
        update |-> up, lookup |-> lk.lookup, order |-> lk.order ] :
      u  \in (IF ev = "login" THEN env.users ELSE {None}),
      a  \in (IF ev = "login" THEN env.login ELSE {"fail"}),
      k  \in (IF ev \in {"logout", "history"} \/ (session_state.user = None /\ HasToken)
              THEN env.ok ELSE {TRUE}),
      f  \in (IF HasToken /\ (ev = "finish" \/ MaySubmit(ev) \/ MayRestore)
              THEN env.refresh ELSE {FALSE}),
      w  \in (IF MaySubmit(ev) THEN env.widgets ELSE OneOf(env.widgets)),
      p  \in (IF MaySubmit(ev) /\ HasToken
              THEN (IF session_state.active_session_id = NoId
                    THEN env.persist ELSE { q \in env.persist : q.insert = "id" })
              ELSE OneOf(env.persist)),
      up \in (IF ev = "finish" /\ HasToken /\ session_state.active_session_id # NoId
              THEN env.update ELSE OneOf(env.update)),
      lk \in (IF MayRestore THEN env.lookup ELSE OneOf(env.lookup)) }

\* A click with the placeholder exercise reads no other input
Inputs(ev, env) ==
    { in \in AllInputs(ev, env) :
        (MaySubmit(ev) /\ in.exercise = ADD_EXERCISE_OPTION) =>
            /\ in.daytype \in {"push", ADD_DAYTYPE_OPTION}
            /\ ~in.refreshed
            /\ in.insert = "id" /\ in.entry = "ok" }

\* The state a finished run leaves behind
Commit(r) ==
    /\ ~r.loc.overflow
    /\ session_state' = r.ss
    /\ cookie_manager' = r.cm
    /\ browser_cookies' = r.bc
    /\ cookies_ready' = r.ready
    /\ workout_sessions' = r.S
    /\ workout_entries' = r.E
    /\ screen' = r.scr
    /\ control' = IF r.st = "rerun" \/ ~r.ready THEN "rerun" ELSE "idle"
    /\ hist' = r.h
    /\ UNCHANGED <<backend, registry>>

\* One script run on the event ev
Run(ev, env) == \E in \in Inputs(ev, env) : \E r \in {Script(in)} : Commit(r)

\* ---------------------------------------------------------------- actions
\* A rerun, or a run on a widget interaction that clicks no button
ScriptRun(env) == Run("script", env)

\* src/app.py:970 the Add Workout button (StartOrContinue)
AddWorkout(env) == control = "idle" /\ screen.form /\ Run("add", env)

\* src/app.py:981 the Finish Workout button (Finish)
FinishWorkout(env) ==
    control = "idle" /\ screen.form /\ screen.finish_enabled /\ Run("finish", env)

\* src/app.py:1165, 1172 the Done button (Reset)
Done(env) == control = "idle" /\ screen.done /\ Run("done", env)

\* src/app.py:542 the Workout History button
WorkoutHistory(env) == control = "idle" /\ screen.account /\ Run("history", env)

\* src/app.py:498 the Login button
Login(env) == control = "idle" /\ screen.login /\ Run("login", env)

\* src/app.py:478 the Logout button
Logout(env) == control = "idle" /\ screen.account /\ Run("logout", env)

\* The UI process restarts: the session state is lost, the committed cookies and
\* the store are kept (src/app.py:425, 597, 734-771 initialise the lost keys)
Restart ==
    /\ control = "idle"
    /\ session_state' = FreshSessionState
    /\ cookie_manager' = browser_cookies
    /\ cookies_ready' = FALSE
    /\ screen' = BlankScreen
    /\ control' = "start"
    /\ hist' = [hist EXCEPT !.did = {}, !.sub = <<>>, !.saves = 0, !.onlyStarts = FALSE,
                            !.started = FALSE, !.writesOk = TRUE, !.seq = "none",
                            !.lost = session_state.active_session_id]
    /\ UNCHANGED <<browser_cookies, workout_sessions, workout_entries, backend, registry>>

\* ------------------------------------------------- the history endpoint
(***************************************************************************)
(* src/backend/history_api.py.  A date is <<year, month, day>>; the ISO    *)
(* string YYYY-MM-DD of a date is ordered as the date is, which is the     *)
(* lexicographic order of <<year, month, day>>.                            *)
(***************************************************************************)
DateLT(a, b) ==
    \/ a[1] < b[1]
    \/ a[1] = b[1] /\ a[2] < b[2]
    \/ a[1] = b[1] /\ a[2] = b[2] /\ a[3] < b[3]

DateLE(a, b) == a = b \/ DateLT(a, b)

IsLeap(year) == (year % 4 = 0 /\ year % 100 # 0) \/ year % 400 = 0

\* calendar.monthrange(year, month)[1]: the number of days of the month
monthrange(year, month) ==
    IF month = 2 THEN (IF IsLeap(year) THEN 29 ELSE 28)
    ELSE IF month \in {4, 6, 9, 11} THEN 30
    ELSE 31

\* day - timedelta(days=1)
Yesterday(day) ==
    IF day[3] > 1 THEN <<day[1], day[2], day[3] - 1>>
    ELSE IF day[2] > 1 THEN <<day[1], day[2] - 1, monthrange(day[1], day[2] - 1)>>
    ELSE <<day[1] - 1, 12, 31>>

\* day - timedelta(days=n)
RECURSIVE MinusDays(_, _)
MinusDays(day, n) == IF n = 0 THEN day ELSE MinusDays(Yesterday(day), n - 1)

\* Mutant: the week starts six days before today
WeekStartSixDays(today) == MinusDays(today, 6)

\* src/backend/history_api.py:38
WeekStart(today) == MinusDays(today, 7)

\* Mutant: a start date given with the request wins over the period
FromDateOfRequestFirst(request, today) ==
    IF request.from_date # NoDay THEN request.from_date
    ELSE IF request.period = "week" THEN MinusDays(today, 7)
    ELSE IF request.period = "month" THEN <<today[1], today[2], 1>>
    ELSE IF request.period = "year" THEN <<today[1], 1, 1>>
    ELSE request.from_date

\* src/backend/history_api.py:35-46: the start date of the request
FromDate(request, today) ==
    IF request.period = "week" THEN WeekStart(today)
    ELSE IF request.period = "month" THEN <<today[1], today[2], 1>>
    ELSE IF request.period = "year" THEN <<today[1], 1, 1>>
    ELSE request.from_date

\* src/backend/history_api.py:35-46: the end date of the request
ToDate(request, today) ==
    IF request.period = "week" THEN today
    ELSE IF request.period = "month"
    THEN <<today[1], today[2], monthrange(today[1], today[2])>>
    ELSE IF request.period = "year" THEN <<today[1], 12, 31>>
    ELSE request.to_date

\* Mutant: the sessions of every user are selected
SessionsOfAnyUser(rows, user_id, from_date, to_date) ==
    SelectSeq(rows, LAMBDA row :
        /\ from_date # NoDay => DateLE(from_date, row.date)
        /\ to_date # NoDay => DateLE(row.date, to_date))

\* src/backend/history_api.py:63-68: the sessions of the user in the date range
SessionsQuery(rows, user_id, from_date, to_date) ==
    SelectSeq(rows, LAMBDA row :
        /\ row.user_id = user_id
        /\ from_date # NoDay => DateLE(from_date, row.date)
        /\ to_date # NoDay => DateLE(row.date, to_date))

\* Mutant: the sessions are not filtered on completed_at
EverySession(data) == data

\* src/backend/history_api.py:69: the sessions with a completed_at
CompletedSessions(data) == SelectSeq(data, LAMBDA row : row.completed_at)

\* src/backend/history_api.py:70
DatesOf(sessions) == [ i \in 1..Len(sessions) |-> sessions[i].date ]

\* Mutant: the days are counted with their repetitions
TotalDaysRepeated(dates) == Len(dates)

\* src/backend/history_api.py:72: len(set(dates))
TotalDays(dates) == Cardinality({ dates[i] : i \in DOMAIN dates })

\* Counter(dates)[day]
Counter(dates, day) == Cardinality({ i \in DOMAIN dates : dates[i] = day })

\* sorted(...): the days in ascending order
RECURSIVE Sorted(_)
Sorted(days) ==
    IF days = {} THEN <<>>
    ELSE LET first == CHOOSE d \in days : \A e \in days : DateLE(d, e)
         IN  <<first>> \o Sorted(days \ {first})

\* Mutant: the days are listed in the order of their first session
RECURSIVE FirstSeen(_)
FirstSeen(dates) ==
    IF dates = <<>> THEN <<>>
    ELSE <<Head(dates)>> \o FirstSeen(SelectSeq(Tail(dates), LAMBDA d : d # Head(dates)))

\* Mutant: sessions_by_day is not sorted
SessionsByDayUnsorted(dates) ==
    [ i \in 1..Len(FirstSeen(dates)) |->
        [ date |-> FirstSeen(dates)[i], count |-> Counter(dates, FirstSeen(dates)[i]) ] ]

\* src/backend/history_api.py:73-75: the count of each day, sorted by day
SessionsByDay(dates) ==
    [ i \in 1..Len(Sorted({ dates[j] : j \in DOMAIN dates })) |->
        [ date  |-> Sorted({ dates[j] : j \in DOMAIN dates })[i],
          count |-> Counter(dates, Sorted({ dates[j] : j \in DOMAIN dates })[i]) ] ]

\* src/backend/history_api.py:70-82: the payload of the completed sessions
Payload(dates) ==
    [ total_sessions  |-> Len(dates),
      total_days      |-> TotalDays(dates),
      sessions_by_day |-> SessionsByDay(dates) ]

\* src/backend/history_api.py:25 get_history
get_history(rows, user_id, request, today) ==
    Payload(DatesOf(CompletedSessions(
        SessionsQuery(rows, user_id, FromDate(request, today), ToDate(request, today)))))

\* ------------------------------------------- the customization endpoints
(***************************************************************************)
(* src/backend/customizations_api.py.  A name is a sequence of characters, *)
(* so that strip() and lower() are computed.  Of the whitespace that       *)
(* strip() removes, the model has the space.                               *)
(***************************************************************************)
UpperCase == <<"A", "B", "C", "D", "E", "F", "G", "H", "I", "J", "K", "L", "M",
               "N", "O", "P", "Q", "R", "S", "T", "U", "V", "W", "X", "Y", "Z">>
LowerCase == <<"a", "b", "c", "d", "e", "f", "g", "h", "i", "j", "k", "l", "m",
               "n", "o", "p", "q", "r", "s", "t", "u", "v", "w", "x", "y", "z">>

\* str.lower() of one character
LowerChar(c) ==
    IF \E i \in DOMAIN UpperCase : UpperCase[i] = c
    THEN LowerCase[CHOOSE i \in DOMAIN UpperCase : UpperCase[i] = c]
    ELSE c

\* str.lower()
lower(value) == [ i \in 1..Len(value) |-> LowerChar(value[i]) ]

RECURSIVE lstrip(_)
lstrip(value) ==
    IF value # <<>> /\ Head(value) = " " THEN lstrip(Tail(value)) ELSE value

RECURSIVE rstrip(_)
rstrip(value) ==
    IF value # <<>> /\ value[Len(value)] = " "
    THEN rstrip(SubSeq(value, 1, Len(value) - 1)) ELSE value

\* str.strip()
strip(value) == rstrip(lstrip(value))

\* Mutant: the name is trimmed and its casing kept
NormalizeKeepsCase(value) == strip(value)

\* src/backend/customizations_api.py:21 _normalize
Normalize(value) == lower(strip(value))

\* src/backend/customizations_api.py:18 PREDEFINED_DAYTYPES
PredefinedDaytypeKeys == { <<"p", "u", "s", "h">>, <<"p", "u", "l", "l">>, <<"l", "e", "g">>, <<"a", "r", "m">> }

\* The rows of user_daytypes with that user_id and daytype_key
DaytypeRows(table, user_id, daytype_key) ==
    { i \in DOMAIN table :
        table[i].user_id = user_id /\ table[i].daytype_key = daytype_key }

\* The rows of user_exercises with that user_id, daytype_key and exercise_key
ExerciseRows(table, user_id, daytype_key, exercise_key) ==
    { i \in DOMAIN table : /\ table[i].user_id = user_id
                           /\ table[i].daytype_key = daytype_key
                           /\ table[i].exercise_key = exercise_key }

\* raise HTTPException(status_code=400, detail=...)
HTTPException(call, detail) ==
    [ call EXCEPT !.pc = "done", !.response = [ status |-> 400, detail |-> detail ] ]

\* return {...}
Return(call, payload) == [ call EXCEPT !.pc = "done", !.response = payload ]

\* Mutant: a day type that collides with a built-in is accepted
NeverPredefined(daytype_key) == FALSE

\* src/backend/customizations_api.py:74
IsPredefined(daytype_key) == daytype_key \in PredefinedDaytypeKeys

\* src/backend/customizations_api.py:82-83: the existing day type is returned
ExistingDaytype(call, table, rows) ==
    { Return(call, [ status |-> 200, daytype |-> table[i].daytype_name, created |-> FALSE ]) :
        i \in rows }

\* src/backend/customizations_api.py:70-83: create_daytype up to the existence
\* check; the set of the states the call may be in after it
CreateDaytypeCheck(call, table, user_id, name) ==
    IF strip(name) = <<>> THEN { HTTPException(call, "Day type name is required.") }
    ELSE IF IsPredefined(Normalize(strip(name)))
    THEN { HTTPException(call, "That day type already exists.") }
    ELSE IF DaytypeRows(table, user_id, Normalize(strip(name))) # {}
    THEN ExistingDaytype(call, table, DaytypeRows(table, user_id, Normalize(strip(name))))
    ELSE { [ call EXCEPT !.pc = "insert" ] }

\* The row of user_daytypes inserted at src/backend/customizations_api.py:84-86
DaytypeRow(user_id, name) ==
    [ user_id |-> user_id, daytype_name |-> strip(name),
      daytype_key |-> Normalize(strip(name)) ]

\* src/backend/customizations_api.py:87-90
CreatedDaytype(call) ==
    Return(call, [ status |-> 200, daytype |-> strip(call.request.name), created |-> TRUE ])

\* Mutant: the day type of an exercise is not looked up
AnyDaytypeKnown(table, user_id, daytype_key) == TRUE

\* src/backend/customizations_api.py:126-131: the day type is a built-in or a
\* custom day type of the user
KnownDaytype(table, user_id, daytype_key) ==
    \/ daytype_key \in PredefinedDaytypeKeys
    \/ DaytypeRows(table, user_id, daytype_key) # {}

\* src/backend/customizations_api.py:135-136: the existing exercise is returned
ExistingExercise(call, table, rows, daytype_key) ==
    { Return(call, [ status |-> 200, exercise |-> table[i].exercise_name,
                     created |-> FALSE, daytype |-> daytype_key ]) : i \in rows }

\* src/backend/customizations_api.py:118-136: create_exercise up to the
\* existence check; the set of the states the call may be in after it.  The rows
\* of user_daytypes are never deleted, so the two selects are one step.
CreateExerciseCheck(call, daytypes, exercises, user_id, daytype, name) ==
    IF strip(name) = <<>> \/ Normalize(daytype) = <<>>
    THEN { HTTPException(call, "Day type and exercise name are required.") }
    ELSE IF ~KnownDaytype(daytypes, user_id, Normalize(daytype))
    THEN { HTTPException(call, "Unknown day type.") }
    ELSE IF ExerciseRows(exercises, user_id, Normalize(daytype), Normalize(strip(name))) # {}
    THEN ExistingExercise(call, exercises,
             ExerciseRows(exercises, user_id, Normalize(daytype), Normalize(strip(name))),
             Normalize(daytype))
    ELSE { [ call EXCEPT !.pc = "insert" ] }

\* The row of user_exercises inserted at src/backend/customizations_api.py:137-144
ExerciseRow(user_id, daytype, name) ==
    [ user_id |-> user_id, daytype_key |-> Normalize(daytype),
      exercise_name |-> strip(name), exercise_key |-> Normalize(strip(name)) ]

\* src/backend/customizations_api.py:145-148
CreatedExercise(call) ==
    Return(call, [ status |-> 200, exercise |-> strip(call.request.name),
                   created |-> TRUE, daytype |-> Normalize(call.request.daytype) ])

\* The orders in which a select may return the rows of a set
Orderings(rows) ==
    { f \in [ 1..Cardinality(rows) -> rows ] :
        \A i \in DOMAIN f : \A j \in DOMAIN f : i # j => f[i] # f[j] }

\* src/backend/customizations_api.py:50 list_daytypes: the names of the user's
\* day types.  The collation of the store decides the order of the names; the
\* model takes every order.
list_daytypes(table, user_id) ==
    { [ i \in DOMAIN f |-> table[f[i]].daytype_name ] :
        f \in Orderings({ i \in DOMAIN table : table[i].user_id = user_id }) }

\* src/app.py:699 PREDEFINED_DAYTYPES
PREDEFINED_DAYTYPES == << <<"p", "u", "s", "h">>, <<"p", "u", "l", "l">>, <<"l", "e", "g">>, <<"a", "r", "m">> >>

\* src/app.py:663 daytype_to_exercises: the built-in exercises of a day type
BuiltinExercises(daytype_key) ==
    IF daytype_key = <<"a", "r", "m">>
    THEN <<  <<"p", "r", "e", "c", "h", "a", "i", "r", " ", "a", "r", "m", " ", "c", "u", "r", "l">>,
            <<"t", "r", "i", "c", "e", "p", " ", "o", "v", "e", "r", "h", "e", "a", "d", " ", "p", "r", "e", "s", "s">>,
            <<"t", "r", "i", "c", "e", "p", " ", "e", "x", "t", "e", "n", "s", "i", "o", "n">>,
            <<"H", "a", "m", "m", "e", "r", " ", "c", "u", "r", "l">> >>
    ELSE IF daytype_key = <<"l", "e", "g">>
    THEN <<  <<"c", "a", "l", "f", " ", "p", "r", "e", "s", "s">>,
            <<"l", "e", "g", " ", "c", "u", "r", "l">>,
            <<"s", "q", "u", "a", "t">>,
            <<"l", "e", "g", " ", "e", "x", "t", "e", "n", "s", "i", "o", "n">> >>
    ELSE IF daytype_key = <<"p", "u", "s", "h">>
    THEN <<  <<"t", "r", "i", "c", "e", "p", " ", "o", "v", "e", "r", "h", "e", "a", "d", " ", "p", "r", "e", "s", "s">>,
            <<"t", "r", "i", "c", "e", "p", " ", "e", "x", "t", "e", "n", "s", "i", "o", "n">>,
            <<"s", "h", "o", "u", "l", "d", " ", "p", "r", "e", "s", "s">>,
            <<"l", "a", "t", "e", "r", "a", "l", " ", "c", "a", "b", "l", "e", " ", "r", "a", "i", "s", "e">>,
            <<"r", "e", "a", "r", " ", "d", "e", "l", "t">>,
            <<"c", "h", "e", "s", "t", " ", "p", "r", "e", "s", "s">> >>
    ELSE IF daytype_key = <<"p", "u", "l", "l">>
    THEN <<  <<"p", "r", "e", "c", "h", "a", "i", "r", " ", "a", "r", "m", " ", "c", "u", "r", "l">>,
            <<"H", "a", "m", "m", "e", "r", " ", "c", "u", "r", "l">>,
            <<"v", "e", "r", "t", "i", "c", "a", "l", " ", "b", "a", "c", "k">>,
            <<"h", "o", "r", "i", "z", "o", "n", "t", "a", "l", " ", "b", "a", "c", "k">>,
            <<"s", "h", "r", "u", "g", "g", "s">> >>
    ELSE <<>>

\* src/app.py:704 normalize_label
normalize_label(value) == lower(strip(value))

\* Mutant: an option is skipped only when the same name was seen
SeenSameName(names, i) == \E j \in 1..(i - 1) : names[j] = names[i]

\* src/app.py:712-714: the key of the name was seen earlier in the list
Seen(names, i) ==
    \E j \in 1..(i - 1) : normalize_label(names[j]) = normalize_label(names[i])

RECURSIVE Unseen(_, _)
Unseen(names, i) ==
    IF i > Len(names) THEN <<>>
    ELSE IF Seen(names, i) THEN Unseen(names, i + 1)
    ELSE <<names[i]>> \o Unseen(names, i + 1)

\* src/app.py:708 build_daytype_options
build_daytype_options(custom_daytypes) == Unseen(PREDEFINED_DAYTYPES \o custom_daytypes, 1)

\* A request of a client that is not in the middle of one
NewCall(request) == [ NoCall EXCEPT !.request = request ]

OnlyRegistry ==
    UNCHANGED <<session_state, cookie_manager, browser_cookies, cookies_ready,
                workout_sessions, workout_entries, screen, control, hist, backend>>

\* POST /customizations/daytypes, src/backend/customizations_api.py:64-83
PostDaytype(env) ==
    /\ \E c \in env.clients : \E r \in env.daytype_requests :
          /\ registry.calls[c].pc # "insert"
          /\ \E call \in CreateDaytypeCheck(
                             NewCall([ op |-> "create_daytype", user_id |-> r.user_id,
                                       name |-> r.name ]),
                             registry.user_daytypes, r.user_id, r.name) :
                registry' = [ registry EXCEPT !.calls[c] = call ]
    /\ OnlyRegistry

\* POST /customizations/daytypes, src/backend/customizations_api.py:84-90
InsertDaytype(env) ==
    /\ \E c \in env.clients :
          /\ registry.calls[c].pc = "insert"
          /\ registry.calls[c].request.op = "create_daytype"
          /\ registry' =
                [ registry EXCEPT
                    !.user_daytypes = Append(@, DaytypeRow(registry.calls[c].request.user_id,
                                                           registry.calls[c].request.name)),
                    !.calls[c] = CreatedDaytype(@) ]
    /\ OnlyRegistry

\* POST /customizations/exercises, src/backend/customizations_api.py:112-136
PostExercise(env) ==
    /\ \E c \in env.clients : \E r \in env.exercise_requests :
          /\ registry.calls[c].pc # "insert"
          /\ \E call \in CreateExerciseCheck(
                             NewCall([ op |-> "create_exercise", user_id |-> r.user_id,
                                       daytype |-> r.daytype, name |-> r.name ]),
                             registry.user_daytypes, registry.user_exercises,
                             r.user_id, r.daytype, r.name) :
                registry' = [ registry EXCEPT !.calls[c] = call ]
    /\ OnlyRegistry

\* POST /customizations/exercises, src/backend/customizations_api.py:137-148
InsertExercise(env) ==
    /\ \E c \in env.clients :
          /\ registry.calls[c].pc = "insert"
          /\ registry.calls[c].request.op = "create_exercise"
          /\ registry' =
                [ registry EXCEPT
                    !.user_exercises = Append(@, ExerciseRow(registry.calls[c].request.user_id,
                                                             registry.calls[c].request.daytype,
                                                             registry.calls[c].request.name)),
                    !.calls[c] = CreatedExercise(@) ]
    /\ OnlyRegistry

\* GET /customizations/daytypes, src/backend/customizations_api.py:49-61, and
\* the options that src/app.py:830-831 builds from the answer
GetDaytypes(env) ==
    /\ \E c \in env.clients : \E u \in env.users :
          /\ registry.calls[c].pc # "insert"
          /\ \E names \in list_daytypes(registry.user_daytypes, u) :
                registry' =
                    [ registry EXCEPT
                        !.calls[c] = Return(NewCall([ op |-> "list_daytypes", user_id |-> u ]),
                                            [ status |-> 200, daytypes |-> names,
                                              options |-> build_daytype_options(names) ]) ]
    /\ OnlyRegistry

\* ---------------------------------------------------------- specifications
(***************************************************************************)
(* SpecStart: one browser session in which workouts are added and none is  *)
(* finished; the store and the identity service answer in every way.       *)
(***************************************************************************)
NextStart ==
    \/ ScriptRun(AnyEnv)
    \/ Login(AnyEnv)
    \/ AddWorkout(AnyEnv)

SpecStart == Init /\ [][NextStart]_vars

(***************************************************************************)
(* SpecSession: one browser session.  Workouts of one day and one exercise *)
(* are added, finished and reset, the history is opened, the user logs out *)
(* and in; the store and the identity service answer in every way.         *)
(***************************************************************************)
OneWorkout ==
    { w \in Widgets : w.daytype = "push" /\ w.exercise = "tricep extension" }

SessionEnv == [ AnyEnv EXCEPT !.widgets = OneWorkout ]

NextSession ==
    \/ ScriptRun(SessionEnv)
    \/ Login(SessionEnv)
    \/ AddWorkout(SessionEnv)
    \/ FinishWorkout(SessionEnv)
    \/ Done(SessionEnv)
    \/ WorkoutHistory(SessionEnv)
    \/ Logout(SessionEnv)

SpecSession == Init /\ [][NextSession]_vars

(***************************************************************************)
(* SpecReload: workouts of one day are added and finished, and the UI      *)
(* process may restart.  A session insert returns an id, an entry insert   *)
(* may fail; the selects of the restore answer in every way.               *)
(***************************************************************************)
OneDay == { w \in Widgets : w.daytype = "push" /\ w.exercise # ADD_EXERCISE_OPTION }

ReloadEnv ==
    [ AnyEnv EXCEPT !.widgets = OneDay,
                    !.persist = { p \in PersistAnswers : p.insert = "id" },
                    !.update = {"rows", "zero"} ]

NextReload ==
    \/ ScriptRun(ReloadEnv)
    \/ Login(ReloadEnv)
    \/ AddWorkout(ReloadEnv)
    \/ FinishWorkout(ReloadEnv)
    \/ Done(ReloadEnv)
    \/ Restart

SpecReload == Init /\ [][NextReload]_vars

(***************************************************************************)
(* SpecHistory: the history endpoint answers requests of user "u1" over a  *)
(* table of up to MaxHistoryRows sessions, on one of two days.             *)
(***************************************************************************)
\* The days on which requests are made: one in the first week of a year, one
\* right after the 29th of February
Todays == { <<2024, 1, 8>>, <<2024, 3, 1>> }

\* Session dates on both sides of the week, month and year ranges of a day
SessionDates(today) ==
    IF today = <<2024, 1, 8>>
    THEN { <<2023, 12, 31>>, <<2024, 1, 1>>, <<2024, 1, 8>>, <<2024, 1, 31>>,
           <<2024, 2, 1>>, <<2024, 12, 31>>, <<2025, 1, 1>> }
    ELSE { <<2024, 2, 22>>, <<2024, 2, 23>>, <<2024, 3, 1>> }

StoredSessions(today) ==
    { [ user_id |-> "u1", date |-> d, completed_at |-> c ] :
        d \in SessionDates(today), c \in BOOLEAN }
    \cup { [ user_id |-> "u2", date |-> today, completed_at |-> TRUE ] }

Tables(today) == UNION { [ 1..n -> StoredSessions(today) ] : n \in 0..MaxHistoryRows }

Requests ==
    { [ period |-> p, from_date |-> f, to_date |-> t ] :
        p \in {None, "week", "month", "year", "all"},
        f \in {NoDay, <<2024, 1, 1>>},
        t \in {NoDay, <<2024, 1, 31>>} }

InitHistory ==
    /\ session_state = FreshSessionState
    /\ cookie_manager = NoCookies
    /\ browser_cookies = NoCookies
    /\ cookies_ready = FALSE
    /\ workout_sessions = <<>>
    /\ workout_entries = <<>>
    /\ screen = BlankScreen
    /\ control = "start"
    /\ hist = InitHist
    /\ registry = NoRegistry
    /\ \E d \in Todays :
          backend \in { [ NoBackend EXCEPT !.today = d, !.rows = t, !.request = r ] :
                          t \in Tables(d), r \in Requests }

\* src/backend/history_api.py:24 GET /history of user "u1"
GetHistory ==
    /\ ~backend.answered
    /\ backend' = [ backend EXCEPT !.answered = TRUE,
                                   !.response = get_history(backend.rows, "u1",
                                                            backend.request, backend.today) ]
    /\ UNCHANGED <<session_state, cookie_manager, browser_cookies, cookies_ready,
                   workout_sessions, workout_entries, screen, control, hist, registry>>

NextHistory == GetHistory

SpecHistory == InitHistory /\ [][NextHistory]_vars

(***************************************************************************)
(* SpecUsers: two users share one browser session.  One logs in and adds   *)
(* workouts, logs out, and the other logs in and adds workouts.  A session *)
(* insert returns an id, an entry insert may fail, a login may come        *)
(* without a session.                                                      *)
(***************************************************************************)
UsersEnv ==
    [ SessionEnv EXCEPT !.users = {"u1", "u2"},
                        !.login = {"session", "nosession"},
                        !.persist = { p \in PersistAnswers : p.insert = "id" },
                        !.refresh = {FALSE},
                        !.ok = {TRUE} ]

NextUsers ==
    \/ ScriptRun(UsersEnv)
    \/ Login(UsersEnv)
    \/ Logout(UsersEnv)
    \/ AddWorkout(UsersEnv)

SpecUsers == Init /\ [][NextUsers]_vars

(***************************************************************************)
(* SpecPlaceholder: one browser session in which the day type selector     *)
(* also offers the placeholder "add custom day type".                      *)
(***************************************************************************)
PlaceholderEnv ==
    [ AnyEnv EXCEPT !.widgets = PlaceholderWidgets,
                    !.persist = { p \in PersistAnswers : p.entry = "ok" },
                    !.update = {"rows"},
                    !.refresh = {FALSE} ]

NextPlaceholder ==
    \/ ScriptRun(PlaceholderEnv)
    \/ Login(PlaceholderEnv)
    \/ AddWorkout(PlaceholderEnv)
    \/ FinishWorkout(PlaceholderEnv)
    \/ Done(PlaceholderEnv)

SpecPlaceholder == Init /\ [][NextPlaceholder]_vars

(***************************************************************************)
(* SpecCookies: one browser session and one UI process, so the cookies     *)
(* stay ready after the first run, and the user stays logged in.  Workouts *)
(* are added, finished and reset; a token may be refreshed, which saves    *)
(* the cookies in the middle of a run; an entry insert may fail, and a     *)
(* session insert may raise out of the script while the buffer and the     *)
(* tables have room for the retry.                                         *)
(* Fairness: a rerun that was asked for is run and events keep being       *)
(* processed (WF of ScriptRun); the store does not fail forever, so a run  *)
(* that reaches the end of the script is eventually taken (WF of RunToEnd).*)
(***************************************************************************)
CookieAnswers ==
    { p \in PersistAnswers : p.select = "rows" /\ p.insert \in {"id", "raise"} }

HasRoom ==
    /\ Len(session_state.workout_rows) + 1 < MaxRows
    /\ Len(workout_sessions) < MaxSessions
    /\ Len(workout_entries) < MaxEntries

CookieEnv ==
    [ AnyEnv EXCEPT !.widgets = OneWorkout,
                    !.login = {"session", "fail"},
                    !.persist = IF HasRoom THEN CookieAnswers
                                ELSE { p \in CookieAnswers : p.insert = "id" },
                    !.update = {"rows"} ]

\* A script run that reaches the end of the script (src/app.py:1192-1197)
RunToEnd == ScriptRun(CookieEnv) /\ ~screen'.exception /\ control' = "idle"

NextCookies ==
    \/ ScriptRun(CookieEnv)
    \/ Login(CookieEnv)
    \/ AddWorkout(CookieEnv)
    \/ FinishWorkout(CookieEnv)
    \/ Done(CookieEnv)

SpecCookies ==
    Init /\ [][NextCookies]_vars /\ WF_vars(ScriptRun(CookieEnv)) /\ WF_vars(RunToEnd)

(***************************************************************************)
(* SpecRegistry: the customization endpoints, one request at a time.  Two  *)
(* users create day types and exercises in several spellings and list the  *)
(* day types.                                                               *)
(***************************************************************************)
DaytypeNames == { <<" ">>, <<" ", "L", "E", "G", " ">>, <<"a", "b", "s">>, <<" ", "A", "b", "s">> }

RegistryEnv ==
    [ clients |-> {1},
      users |-> {"u1", "u2"},
      daytype_requests |->
          { [ user_id |-> "u1", name |-> n ] : n \in DaytypeNames }
          \cup { [ user_id |-> "u2", name |-> <<"A", "B", "S">> ] },
      exercise_requests |->
          { [ user_id |-> "u1", daytype |-> <<"L", "e", "g", " ">>, name |-> <<"S", "q", "u", "a", "t">> ],
            [ user_id |-> "u1", daytype |-> <<"L", "e", "g", " ">>, name |-> <<" ">> ],
            [ user_id |-> "u1", daytype |-> <<"a", "b", "s">>, name |-> <<"p", "l", "a", "n", "k">> ],
            [ user_id |-> "u1", daytype |-> <<"a", "b", "s">>, name |-> <<" ", "P", "l", "a", "n", "k">> ] } ]

NextRegistry ==
    \/ PostDaytype(RegistryEnv)
    \/ InsertDaytype(RegistryEnv)
    \/ PostExercise(RegistryEnv)
    \/ InsertExercise(RegistryEnv)
    \/ GetDaytypes(RegistryEnv)

SpecRegistry == Init /\ [][NextRegistry]_vars

(***************************************************************************)
(* SpecRegistryRace: two requests of one user at a time, as from two       *)
(* browser tabs; the steps of the two requests interleave.                 *)
(***************************************************************************)
RaceEnv ==
    [ clients |-> {1, 2},
      users |-> {"u1"},
      daytype_requests |-> { [ user_id |-> "u1", name |-> n ] : n \in { <<"a", "b", "s">>, <<" ", "A", "b", "s">>, <<" ", "L", "E", "G", " ">> } },
      exercise_requests |-> {} ]

NextRegistryRace ==
    \/ PostDaytype(RaceEnv)
    \/ InsertDaytype(RaceEnv)
    \/ GetDaytypes(RaceEnv)

SpecRegistryRace == Init /\ [][NextRegistryRace]_vars

\* ------------------------------------------------------------ properties
Alerts ==
    { "error: not authenticated for inserts", "error: database insert failed",
      "error: failed to mark session complete",
      "warning: no session rows updated", "warning: completed_at is still empty" }

Warnings == { "warning: no session rows updated", "warning: completed_at is still empty" }

IsActive ==
    session_state.active_daytype # None /\ session_state.active_date # NoDate

NoActive ==
    /\ session_state.active_daytype = None
    /\ session_state.active_date = NoDate
    /\ session_state.active_session_id = NoId

\* The session rows of the pinned (user, date, day type)
PinnedSessionRows ==
    { i \in 1..Len(workout_sessions) :
        /\ workout_sessions[i].user_id = session_state.user
        /\ workout_sessions[i].date = isoformat(session_state.active_date)
        /\ workout_sessions[i].daytype = session_state.active_daytype }

\* One or more workouts were added, and nothing else happened to the workflow
OnlyStarted == hist.onlyStarts /\ session_state.workout_rows # <<>>

Range(seq) == { seq[i] : i \in DOMAIN seq }

Count(seq, x) == Cardinality({ i \in DOMAIN seq : seq[i] = x })

\* The same rows, the same number of times each
SameRows(a, b) ==
    /\ Len(a) = Len(b)
    /\ \A x \in Range(a) \cup Range(b) : Count(a, x) = Count(b, x)

\* A run restored the rows of the session the last Finish recorded, and every
\* store write of that workout had succeeded
RestoredFinished ==
    /\ "restore" \in hist.did
    /\ hist.fin.ok
    /\ hist.fin.sid # NoId
    /\ SessionHint(session_state, cookie_manager, cookies_ready) = hist.fin.sid

\* C2: a workout is added with every store write succeeding and finished; after
\* a restart, the restore from the last-session-id hint puts into the buffer
\* exactly the rows that were buffered before Finish.
C2_RoundTrip ==
    RestoredFinished => SameRows(session_state.workout_rows, hist.fin.rows)

C2_Witness ==
    /\ RestoredFinished
    /\ Len(session_state.workout_rows) = 2
    /\ session_state.workout_rows[1] # session_state.workout_rows[2]
    /\ session_state.workout_rows = Reverse(hist.fin.rows)

\* C3: Finish followed immediately by Done leaves the completed flag false, the
\* buffer empty and the active day type, date and session id unset.
C3_FinishThenReset ==
    hist.seq = "reset" =>
        /\ ~session_state.workout_completed
        /\ session_state.workout_rows = <<>>
        /\ NoActive

C3_Witness ==
    /\ hist.seq = "reset"
    /\ "done" \in hist.did
    /\ session_state.last_session_id # NoId
    /\ session_state.workout_rows = <<>>

\* Every buffered row and every session row written carries the pinned values
PinnedRows ==
    IsActive =>
        /\ \A i \in DOMAIN session_state.workout_rows :
              /\ session_state.workout_rows[i].Daytype = session_state.active_daytype
              /\ session_state.workout_rows[i].Date = isoformat(session_state.active_date)
        /\ \A i \in DOMAIN workout_sessions :
              /\ workout_sessions[i].daytype = session_state.active_daytype
              /\ workout_sessions[i].date = isoformat(session_state.active_date)

PinnedStays ==
    IsActive =>
        /\ session_state'.active_daytype = session_state.active_daytype
        /\ session_state'.active_date = session_state.active_date

\* C4: once a session is active, a StartOrContinue ignores the day type and date
\* of the UI: every buffered row and every session row written while active
\* carries the pinned day type and date, and the pinned values do not change.
C4_Pinned == []PinnedRows /\ [][PinnedStays]_vars

C4_Witness ==
    /\ "drift" \in hist.did
    /\ IsActive
    /\ Len(session_state.workout_rows) = 2
    /\ Len(workout_sessions) = 1

\* C5: whatever the store does during Finish, after Finish the completed flag
\* is true and the active day type, date and session id are cleared.
C5_OptimisticCompletion ==
    "finish" \in hist.did => (session_state.workout_completed /\ NoActive)

C5_Witness ==
    /\ "finish" \in hist.did
    /\ "error: failed to mark session complete" \in screen.msgs
    /\ session_state.workout_completed
    /\ NoActive

\* src/app.py:618, 624: an empty last-session-id cookie reads as no session id
HintOf(cookie) == IF cookie > 0 THEN cookie ELSE NoId

HintRecorded ==
    "finish" \in hist'.did =>
        /\ session_state'.last_session_id = session_state.active_session_id
        /\ cookies_ready' =>
              HintOf(cookie_manager'.last_session_id) = session_state.active_session_id
        /\ session_state'.active_session_id = NoId

\* C6: after every Finish the last-session-id hint, in the session state and,
\* when cookies are ready, in the cookie, is the active session id held right
\* before that Finish; it is recorded by the run that clears the active ids.
C6_HintRecorded == [][HintRecorded]_vars

C6_Witness ==
    /\ "finish" \in hist.did
    /\ cookies_ready
    /\ session_state.last_session_id # NoId
    /\ cookie_manager.last_session_id = session_state.last_session_id
    /\ session_state.active_session_id = NoId

NoSessionIdSurfaced ==
    "no session id" \in hist'.did =>
        /\ Len(session_state'.workout_rows) = Len(session_state.workout_rows) + 1
        /\ workout_entries' = workout_entries
        /\ screen'.msgs \cap Alerts # {}

\* C7: when StartOrContinue obtains no session id (the insert returns none and
\* the fallback select finds no row), the entry stays buffered, no entry row is
\* written, and a warning or error is shown.
C7_NoSessionIdSurfaced == [][NoSessionIdSurfaced]_vars

FinishWarns ==
    (/\ "finish" \in hist'.did
     /\ \/ session_state.active_session_id = NoId
        \/ "zero rows updated" \in hist'.did
        \/ "read-back empty" \in hist'.did)
    => (screen'.msgs \cap Warnings # {} /\ ~screen'.exception)

\* C8: a Finish with no active session id, with zero rows updated or with
\* completed_at still empty at the read-back shows a warning and throws no error.
C8_FinishWarns == [][FinishWarns]_vars

\* C9: whenever the completed flag is true and the summary is not restored, the
\* page shows "Summary not available yet." (and no empty summary table).
C9_SummaryNotAvailable ==
    (/\ control = "idle"
     /\ session_state.user # None
     /\ session_state.workout_completed
     /\ session_state.workout_rows = <<>>)
    => screen.panel = "unavailable"

PlaceholderRejected ==
    "placeholder" \in hist'.did =>
        /\ session_state'.workout_rows = session_state.workout_rows
        /\ workout_sessions' = workout_sessions
        /\ workout_entries' = workout_entries
        /\ session_state'.active_daytype = session_state.active_daytype
        /\ session_state'.active_date = session_state.active_date
        /\ session_state'.active_session_id = session_state.active_session_id
        /\ session_state'.workout_completed = session_state.workout_completed

\* C10: a StartOrContinue with the placeholder exercise appends no row, writes
\* no session or entry row and leaves the active day type, date, session id and
\* the completed flag unchanged.
C10_PlaceholderRejected == [][PlaceholderRejected]_vars

C10_Witness ==
    /\ "placeholder" \in hist.did
    /\ "error: select or save an exercise" \in screen.msgs
    /\ Len(session_state.workout_rows) = 1
    /\ session_state.active_session_id # NoId

\* A Finish sets completed_at of a session row that was completed before
SecondCompletion ==
    /\ "completed" \in hist'.did
    /\ workout_sessions[session_state.active_session_id].completed_at

\* C11: over any sequence of StartOrContinue, Finish and Reset, the fallback
\* lookup included, no session row has its completed_at set a second time.
C11_CompletedOnce == [][~SecondCompletion]_vars

\* A session row is inserted by this step
SessionCreated == Len(workout_sessions') > Len(workout_sessions)

UncompletedRows == { i \in DOMAIN workout_sessions : ~workout_sessions[i].completed_at }

\* C12, as stated: the Engine creates no session row while a session row it
\* created earlier still has a null completed_at.
C12_NoRowWhileUncompleted == [][SessionCreated => UncompletedRows = {}]_vars

\* C12, amended: the Engine holds at most one active session id, and it creates
\* no session row while it holds one.
C12_NoRowWhileActive ==
    [][SessionCreated => session_state.active_session_id = NoId]_vars

C12_Witness ==
    /\ "submit" \in hist.did
    /\ Len(workout_sessions) = 2
    /\ session_state.active_session_id = 2
    /\ UncompletedRows = {2}

\* The first workout persisted after a restart goes to the session that was
\* active when the UI process restarted
ContinuesLost ==
    (hist.lost # NoId /\ "persisted" \in hist'.did) =>
        /\ session_state'.active_session_id = hist.lost
        /\ workout_sessions' = workout_sessions

\* C13: the UI process may restart while a session is active; the StartOrContinue
\* after the restart continues that session and starts no new one.
C13_ContinuesAfterRestart == [][ContinuesLost]_vars

\* The Done handler does not run on an active session with buffered rows
DoneWhenCompleted ==
    "done" \in hist'.did => ~(IsActive /\ session_state.workout_rows # <<>>)

\* C14: Reset (Done) is executed from the Completed state only: an active
\* session with buffered rows does not become Idle without a Finish in between,
\* the history view included.
C14_DoneOnlyWhenCompleted == [][DoneWhenCompleted]_vars

DoneKeepsStore ==
    "done" \in hist'.did =>
        /\ workout_sessions' = workout_sessions
        /\ workout_entries' = workout_entries

\* C15: Reset (Done) issues no insert, update or delete: every session row and
\* entry row of the store is the same after it as before it.
C15_DoneKeepsStore == [][DoneKeepsStore]_vars

C15_Witness ==
    /\ "done" \in hist.did
    /\ hist.seq = "reset"
    /\ Len(workout_sessions) = 1
    /\ workout_sessions[1].completed_at
    /\ Len(workout_entries) = 2

\* C27: a store call that fails while StartOrContinue or Finish is handled (the
\* session insert, the fallback select, the entry insert, the completion update
\* or its read-back) never ends the run with an uncaught exception: an error
\* message is shown and the event is handled to its end, the click flags reset.
C27_StoreFailureHandled ==
    "store call failed" \in hist.did =>
        /\ ~screen.exception
        /\ screen.msgs \cap { "error: database insert failed",
                              "error: failed to mark session complete" } # {}
        /\ ~session_state.add_workout_clicked
        /\ ~session_state.finish_workout_clicked

SubmittedRowBuffered ==
    "submit" \in hist'.did =>
        /\ Len(session_state'.workout_rows) = Len(session_state.workout_rows) + 1
        /\ SubSeq(session_state'.workout_rows, 1, Len(session_state.workout_rows))
              = session_state.workout_rows
        /\ hist'.sub = << session_state'.workout_rows[Len(session_state'.workout_rows)].Exercise,
                          session_state'.workout_rows[Len(session_state'.workout_rows)].Weight,
                          session_state'.workout_rows[Len(session_state'.workout_rows)].Rep >>

\* C28: after a StartOrContinue that passed validation the buffered rows are the
\* rows of before followed by the submitted (exercise, weight, rep) row, whether
\* the store write succeeded, failed or was not attempted.
C28_SubmittedRowBuffered == [][SubmittedRowBuffered]_vars

\* The row was buffered and the write failed: the entry insert raised
C28_Witness ==
    /\ "submit" \in hist.did
    /\ "store call failed" \in hist.did
    /\ "error: database insert failed" \in screen.msgs
    /\ Len(session_state.workout_rows) = 2
    /\ workout_entries = <<>>
    /\ hist.sub = << session_state.workout_rows[2].Exercise,
                     session_state.workout_rows[2].Weight,
                     session_state.workout_rows[2].Rep >>

\* A workout is submitted in this step and no access credential exists
SubmitWithoutCredential ==
    /\ "submit" \in hist'.did
    /\ \/ "no credential" \in hist'.did
       \/ session_state.access_token = None /\ cookie_manager.access_token = None

NoWriteWithoutCredential ==
    SubmitWithoutCredential =>
        /\ workout_sessions' = workout_sessions
        /\ workout_entries' = workout_entries
        /\ "error: not authenticated for inserts" \in screen'.msgs

\* C29: a StartOrContinue with no access credential inserts no session row and
\* no entry row and shows the authentication error.
C29_NoWriteWithoutCredential == [][NoWriteWithoutCredential]_vars

C29_Witness ==
    /\ "submit" \in hist.did
    /\ "no credential" \in hist.did
    /\ session_state.user # None
    /\ session_state.access_token = None
    /\ "error: not authenticated for inserts" \in screen.msgs
    /\ Len(session_state.workout_rows) = 1
    /\ workout_sessions = <<>>
    /\ workout_entries = <<>>

\* C30: within one script run the cookies are saved at most once, whichever of
\* the token persistence of the auth module, Finish, StartOrContinue and Reset
\* ask for a save.
C30_OneCookieSave == hist.saves <= 1

\* The auth module saved a refreshed token in a run whose handler queued a save
C30_Witness ==
    /\ "submit" \in hist.did
    /\ hist.saves = 1
    /\ session_state.cookie_save_ran
    /\ session_state.pending_cookie_save

\* An entry row is inserted by this step
EntryCreated == Len(workout_entries') > Len(workout_entries)

\* The session id of the entry row inserted by this step
CreatedFor == workout_entries'[Len(workout_entries')].session_id

OrderedPersistence ==
    /\ SessionCreated => session_state.active_session_id = NoId
    /\ EntryCreated =>
          /\ CreatedFor # NoId
          /\ CreatedFor \in DOMAIN workout_sessions'
          /\ CreatedFor = session_state'.active_session_id
          /\ session_state.active_session_id # NoId
                => CreatedFor = session_state.active_session_id
    /\ session_state.active_session_id # NoId
          => session_state'.active_session_id \in {NoId, session_state.active_session_id}

\* C31: a session row is inserted only when active_session_id is unset; an entry
\* row is inserted only with a known session id, which is the active one from
\* then on; and an entry inserted while a session id is active carries that id,
\* which no step replaces by another one before it is cleared.
C31_OrderedPersistence == [][OrderedPersistence]_vars

C31_Witness ==
    /\ "persisted" \in hist.did
    /\ Len(workout_sessions) = 1
    /\ Len(workout_entries) = 2
    /\ session_state.active_session_id = 1
    /\ workout_entries[1].session_id = 1
    /\ workout_entries[2].session_id = 1

ClickHandledOnce ==
    /\ "submit" \in hist'.did => ~session_state'.add_workout_clicked
    /\ ("submit" \in hist'.did /\ session_state.add_workout_clicked)
          => "submit" \notin hist.did

\* C33: an Add Workout click is handled exactly once: the run that handles it
\* leaves add_workout_clicked false, the failure of a store call included, and
\* no later rerun handles the same click again (one buffered row, at most one
\* entry insert per click).
C33_ClickHandledOnce == [][ClickHandledOnce]_vars

\* C34: an entry row is never attached to a session whose completed_at is set:
\* when an entry is inserted its session is uncompleted, also when the session
\* id comes from the fallback lookup of the latest matching row.
C34_EntryForUncompleted ==
    [][EntryCreated => ~workout_sessions'[CreatedFor].completed_at]_vars

\* C35: no workflow state crosses users: after a logout and a login as another
\* user the buffered rows are empty and active_session_id is unset, so the active
\* session id held for the logged-in user never names a session of another user.
C35_NoStateAcrossUsers ==
    (session_state.user # None /\ session_state.active_session_id # NoId) =>
        workout_sessions[session_state.active_session_id].user_id = session_state.user

\* C36: after every script run (a) the completed flag implies that the active
\* day type, date and session id are unset, (b) an active session id implies an
\* active day type and date, (c) the active day type is set iff the active date
\* is, (d) buffered rows imply an active session or the completed flag.
C36_WorkflowConsistent ==
    /\ session_state.workout_completed =>
          /\ session_state.active_daytype = None
          /\ session_state.active_date = NoDate
          /\ session_state.active_session_id = NoId
    /\ session_state.active_session_id # NoId =>
          /\ session_state.active_daytype # None
          /\ session_state.active_date # NoDate
    /\ (session_state.active_daytype # None) <=> (session_state.active_date # NoDate)
    /\ session_state.workout_rows # <<>> =>
          \/ session_state.active_daytype # None /\ session_state.active_date # NoDate
          \/ session_state.workout_completed

\* A workout was finished: the flag is set, the rows are buffered, nothing is
\* active
C36_Witness ==
    /\ "finish" \in hist.did
    /\ session_state.workout_completed
    /\ session_state.workout_rows # <<>>
    /\ session_state.active_daytype = None
    /\ session_state.last_session_id # NoId

\* C37: the placeholder "add custom day type" is never pinned: the active day
\* type differs from it, and no session row and no buffered row carries it.
C37_PlaceholderNeverPinned ==
    /\ session_state.active_daytype # ADD_DAYTYPE_OPTION
    /\ \A i \in DOMAIN workout_sessions : workout_sessions[i].daytype # ADD_DAYTYPE_OPTION
    /\ \A i \in DOMAIN session_state.workout_rows :
          session_state.workout_rows[i].Daytype # ADD_DAYTYPE_OPTION

\* Add Workout was clicked with the placeholder day type selected
C37_Witness ==
    /\ "placeholder day type" \in hist.did
    /\ "error: select or save an exercise" \in screen.msgs
    /\ session_state.active_daytype = None
    /\ Len(workout_sessions) = 1

\* The Finish Workout handler runs in this step
FinishRuns == "finish" \in hist'.did

\* C38: Finish runs only on a click of the enabled Finish Workout button of the
\* shown entry form: rows are buffered, the workout is not completed, the
\* history is closed, and a workout was submitted since the last Done or start
\* of the UI process.
C38_FinishOnlyWhenActive ==
    [][FinishRuns =>
         /\ control = "idle" /\ screen.form /\ screen.finish_enabled
         /\ session_state.workout_rows # <<>>
         /\ ~session_state.workout_completed
         /\ ~session_state.show_history
         /\ hist.started]_vars

\* A Finish has run after a workout was submitted, with two sessions in the store
C38_Witness ==
    /\ "finish" \in hist.did
    /\ hist.started
    /\ Len(workout_sessions) = 2
    /\ session_state.workout_rows # <<>>

\* C39: a queued cookie save is eventually performed.  When a run ends with
\* the save still pending, a later run commits the cookies and clears the flag.
C39_QueuedSaveCommitted ==
    session_state.pending_cookie_save
        ~> (~session_state.pending_cookie_save /\ browser_cookies = cookie_manager)

\* A run queued a cookie change and ended by a rerun before the save
C39_Witness ==
    /\ session_state.pending_cookie_save
    /\ browser_cookies # cookie_manager
    /\ control = "rerun"

\* ------------------------------------------- properties of the history endpoint
\* The number of the day, counted from the 1st of January 2023
RECURSIVE DaysBeforeMonth(_, _)
DaysBeforeMonth(year, month) ==
    IF month = 1 THEN 0 ELSE DaysBeforeMonth(year, month - 1) + monthrange(year, month - 1)

RECURSIVE DaysBeforeYear(_)
DaysBeforeYear(year) ==
    IF year <= 2023 THEN 0
    ELSE DaysBeforeYear(year - 1) + (IF IsLeap(year - 1) THEN 366 ELSE 365)

Ordinal(day) == DaysBeforeYear(day[1]) + DaysBeforeMonth(day[1], day[2]) + day[3]

\* The date range that the specification gives to a request
InWindow(day, request, today) ==
    IF request.period = "week"
    THEN Ordinal(today) - 7 <= Ordinal(day) /\ Ordinal(day) <= Ordinal(today)
    ELSE IF request.period = "month" THEN day[1] = today[1] /\ day[2] = today[2]
    ELSE IF request.period = "year" THEN day[1] = today[1]
    ELSE /\ request.from_date # NoDay => Ordinal(request.from_date) <= Ordinal(day)
         /\ request.to_date # NoDay => Ordinal(day) <= Ordinal(request.to_date)

\* The completed sessions of user "u1" in the date range of the request
Counted ==
    { i \in DOMAIN backend.rows :
        /\ backend.rows[i].user_id = "u1"
        /\ backend.rows[i].completed_at
        /\ InWindow(backend.rows[i].date, backend.request, backend.today) }

CountedOn(day) == { i \in Counted : backend.rows[i].date = day }

Uncompleted ==
    { i \in DOMAIN backend.rows :
        backend.rows[i].user_id = "u1" /\ ~backend.rows[i].completed_at }

WithoutUncompleted(rows) == SelectSeq(rows, LAMBDA row : row.completed_at)

\* C16: a session with a null completed_at contributes to no part of the
\* response: the response is the one of the table without these sessions.
C16_UncompletedNotCounted ==
    backend.answered =>
        backend.response = get_history(WithoutUncompleted(backend.rows), "u1",
                                       backend.request, backend.today)

C16_Witness ==
    /\ backend.answered
    /\ backend.request.period = "week"
    /\ backend.response.total_sessions = 1
    /\ \E i \in Uncompleted : \E j \in Counted :
          backend.rows[i].date = backend.rows[j].date

RECURSIVE SumOfCounts(_)
SumOfCounts(items) ==
    IF items = <<>> THEN 0 ELSE Head(items).count + SumOfCounts(Tail(items))

\* C17: the counts of sessions_by_day sum to total_sessions, and total_days is
\* the number of items of sessions_by_day.
C17_TotalsAgree ==
    backend.answered =>
        /\ SumOfCounts(backend.response.sessions_by_day) = backend.response.total_sessions
        /\ backend.response.total_days = Len(backend.response.sessions_by_day)

C17_Witness ==
    /\ backend.answered
    /\ backend.response.total_sessions = 3
    /\ backend.response.total_days = 2

\* C18: sessions_by_day lists each date of the counted sessions once, in strictly
\* ascending order, with the number (at least 1) of completed sessions on it.
C18_SortedByDay ==
    backend.answered =>
        LET items == backend.response.sessions_by_day
        IN  /\ \A i \in DOMAIN items : \A j \in DOMAIN items :
                  i < j => Ordinal(items[i].date) < Ordinal(items[j].date)
            /\ \A i \in DOMAIN items :
                  /\ items[i].count >= 1
                  /\ items[i].count = Cardinality(CountedOn(items[i].date))
            /\ \A k \in Counted : \E i \in DOMAIN items : items[i].date = backend.rows[k].date

C18_Witness ==
    /\ backend.answered
    /\ Len(backend.rows) = 3
    /\ Counted = {1, 2, 3}
    /\ DateLT(backend.rows[2].date, backend.rows[1].date)
    /\ backend.rows[3] = backend.rows[1]
    /\ Len(backend.response.sessions_by_day) = 2
    /\ backend.response.sessions_by_day[2].count = 2

\* C19: for a user without a completed session the response is total_sessions 0,
\* total_days 0 and an empty sessions_by_day, whatever the period or date range.
C19_NothingCompleted ==
    (/\ backend.answered
     /\ \A i \in DOMAIN backend.rows :
           backend.rows[i].user_id = "u1" => ~backend.rows[i].completed_at)
    => backend.response =
          [ total_sessions |-> 0, total_days |-> 0, sessions_by_day |-> <<>> ]

C19_Witness ==
    /\ backend.answered
    /\ backend.request.period = "week"
    /\ backend.today = <<2024, 1, 8>>
    /\ Len(backend.rows) = 3
    /\ Counted = {}
    /\ \E i \in Uncompleted : backend.rows[i].date = backend.today
    /\ \E i \in DOMAIN backend.rows : backend.rows[i].user_id = "u2"
    /\ backend.response.total_sessions = 0

\* C20: with period week a completed session is counted iff its date is in
\* [today - 7, today]; with period month or year iff its date is in the current
\* month or year.
C20_PeriodWindow ==
    (backend.answered /\ backend.request.period \in {"week", "month", "year"}) =>
        /\ backend.response.total_sessions = Cardinality(Counted)
        /\ \A i \in DOMAIN backend.rows :
              i \in Counted <=>
                  /\ backend.rows[i].user_id = "u1"
                  /\ backend.rows[i].completed_at
                  /\ \E k \in DOMAIN backend.response.sessions_by_day :
                        backend.response.sessions_by_day[k].date = backend.rows[i].date

C20_Witness ==
    /\ backend.answered
    /\ backend.request.period = "week"
    /\ backend.today = <<2024, 3, 1>>
    /\ backend.response.total_sessions = 2
    /\ \E i \in Counted : backend.rows[i].date = <<2024, 2, 23>>
    /\ \E i \in Counted : backend.rows[i].date = <<2024, 3, 1>>
    /\ \E i \in DOMAIN backend.rows :
          backend.rows[i].date = <<2024, 2, 22>> /\ backend.rows[i].completed_at

\* ------------------------------- properties of the customization endpoints
Clients == DOMAIN registry.calls

\* The requests to create a day type whose name is, but for case and
\* surrounding spaces, a built-in day type
BuiltinDaytypeRequests ==
    { c \in Clients :
        /\ registry.calls[c].request.op = "create_daytype"
        /\ lower(strip(registry.calls[c].request.name)) \in PredefinedDaytypeKeys }

\* C21: a request to create a day type whose normalized key is a built-in day
\* type is answered with a validation error and inserts no row: it never gets
\* to the insert, and no row of user_daytypes carries a built-in key.
C21_BuiltinRejected ==
    /\ \A c \in BuiltinDaytypeRequests :
          /\ registry.calls[c].pc = "done"
          /\ registry.calls[c].response.status = 400
    /\ \A i \in DOMAIN registry.user_daytypes :
          registry.user_daytypes[i].daytype_key \notin PredefinedDaytypeKeys

C21_Witness ==
    /\ registry.calls[1].request.op = "create_daytype"
    /\ registry.calls[1].request.name = <<" ", "L", "E", "G", " ">>
    /\ registry.calls[1].response.status = 400
    /\ registry.calls[1].response.detail = "That day type already exists."
    /\ Len(registry.user_daytypes) = 2

\* The call of client c ends in this step with the answer to a request to
\* create a day type that passed validation
DaytypeAnswered(c) ==
    /\ registry'.calls[c] # registry.calls[c]
    /\ registry'.calls[c].request.op = "create_daytype"
    /\ registry'.calls[c].pc = "done"
    /\ registry'.calls[c].response.status = 200

\* The rows of a table of day types with the user and the key of the request
\* of client c
RowsOfRequest(table, c) ==
    { i \in DOMAIN table :
        /\ table[i].user_id = registry'.calls[c].request.user_id
        /\ table[i].daytype_key = lower(strip(registry'.calls[c].request.name)) }

\* C22: when create requests for day types are served one after the other, a
\* request that passed validation leaves exactly one row for its user and key;
\* the first one stores its trimmed name and answers created = true, and every
\* later one leaves the table alone and answers the stored name with
\* created = false.
C22_Idempotent ==
    [][ \A c \in Clients :
          DaytypeAnswered(c) =>
            /\ Cardinality(RowsOfRequest(registry'.user_daytypes, c)) = 1
            /\ \A i \in RowsOfRequest(registry'.user_daytypes, c) :
                  registry'.calls[c].response.daytype = registry'.user_daytypes[i].daytype_name
            /\ IF RowsOfRequest(registry.user_daytypes, c) = {}
               THEN /\ registry'.calls[c].response.created
                    /\ registry'.calls[c].response.daytype = strip(registry'.calls[c].request.name)
               ELSE /\ ~registry'.calls[c].response.created
                    /\ registry'.user_daytypes = registry.user_daytypes ]_vars

C22_Witness ==
    /\ registry.calls[1].request.op = "create_daytype"
    /\ registry.calls[1].request.user_id = "u1"
    /\ registry.calls[1].request.name = <<" ", "A", "b", "s">>
    /\ registry.calls[1].response.status = 200
    /\ ~registry.calls[1].response.created
    /\ registry.calls[1].response.daytype = <<"a", "b", "s">>
    /\ Cardinality(DaytypeRows(registry.user_daytypes, "u1", <<"a", "b", "s">>)) = 1

\* The user has no day type with this key, built-in or custom
UnknownDaytype(user_id, daytype_key) ==
    /\ daytype_key \notin PredefinedDaytypeKeys
    /\ \A i \in DOMAIN registry.user_daytypes :
          ~(/\ registry.user_daytypes[i].user_id = user_id
            /\ registry.user_daytypes[i].daytype_key = daytype_key)

\* C23: a request to create an exercise for a day type that is neither built-in
\* nor a custom day type of the same user is answered with a validation error,
\* and no row of user_exercises belongs to such a day type; a day type of
\* another user does not count.
C23_UnknownDaytypeRejected ==
    /\ \A c \in Clients :
          (/\ registry.calls[c].request.op = "create_exercise"
           /\ UnknownDaytype(registry.calls[c].request.user_id,
                             lower(strip(registry.calls[c].request.daytype))))
          => /\ registry.calls[c].pc = "done"
             /\ registry.calls[c].response.status = 400
    /\ \A i \in DOMAIN registry.user_exercises :
          ~UnknownDaytype(registry.user_exercises[i].user_id,
                          registry.user_exercises[i].daytype_key)

C23_Witness ==
    /\ registry.calls[1].request.op = "create_exercise"
    /\ registry.calls[1].request.user_id = "u1"
    /\ registry.calls[1].request.daytype = <<"a", "b", "s">>
    /\ registry.calls[1].request.name = <<"p", "l", "a", "n", "k">>
    /\ registry.calls[1].response.status = 400
    /\ registry.calls[1].response.detail = "Unknown day type."
    /\ DaytypeRows(registry.user_daytypes, "u2", <<"a", "b", "s">>) # {}
    /\ Len(registry.user_exercises) = 1

\* The exercise row repeats, but for case and surrounding spaces, a built-in
\* exercise of its day type
RepeatsBuiltin(row) ==
    \E k \in DOMAIN BuiltinExercises(row.daytype_key) :
        normalize_label(BuiltinExercises(row.daytype_key)[k]) = row.exercise_key

\* C24: creating a custom exercise whose normalized name equals a built-in
\* exercise of the same day type adds no row: no row of user_exercises repeats
\* a built-in exercise of its day type.
C24_BuiltinExerciseNotAdded ==
    \A i \in DOMAIN registry.user_exercises : ~RepeatsBuiltin(registry.user_exercises[i])

\* The calls that ended with the day types offered to a user
Listed ==
    { c \in Clients :
        registry.calls[c].request.op = "list_daytypes" /\ registry.calls[c].pc = "done" }

LabelKey(name) == lower(strip(name))

\* The custom names of a list that repeat neither a built-in day type nor an
\* earlier custom name
Kept(custom) ==
    { j \in DOMAIN custom :
        /\ LabelKey(custom[j]) \notin PredefinedDaytypeKeys
        /\ \A i \in 1..(j - 1) : LabelKey(custom[i]) # LabelKey(custom[j]) }

\* C25: the day types offered to a user are the built-in ones followed by the
\* user's custom names: every built-in is offered, no two options share a
\* normalized key, the custom names that repeat no built-in and no earlier
\* custom name follow in their order, and the other custom names are left out.
C25_OptionsDeduplicated ==
    \A c \in Listed :
        /\ \A k \in DOMAIN PREDEFINED_DAYTYPES :
              registry.calls[c].response.options[k] = PREDEFINED_DAYTYPES[k]
        /\ \A i \in DOMAIN registry.calls[c].response.options :
              \A j \in DOMAIN registry.calls[c].response.options :
                 i # j => LabelKey(registry.calls[c].response.options[i])
                            # LabelKey(registry.calls[c].response.options[j])
        /\ Len(registry.calls[c].response.options) =
              Len(PREDEFINED_DAYTYPES) + Cardinality(Kept(registry.calls[c].response.daytypes))
        /\ \A j \in Kept(registry.calls[c].response.daytypes) :
              registry.calls[c].response.options[
                  Len(PREDEFINED_DAYTYPES)
                  + Cardinality({ i \in Kept(registry.calls[c].response.daytypes) : i <= j }) ]
                = registry.calls[c].response.daytypes[j]

C25_Witness ==
    /\ registry.calls[1].request.op = "list_daytypes"
    /\ registry.calls[1].response.status = 200
    /\ registry.calls[1].response.daytypes = << <<"A", "b", "s">>, <<"a", "b", "s">> >>
    /\ registry.calls[1].response.options =
          PREDEFINED_DAYTYPES \o << <<"A", "b", "s">> >>

\* C26: however the steps of two requests of one user to create a day type
\* with the same key interleave, the store holds at most one row for the user
\* and the key.
C26_AtMostOneRow ==
    \A i \in DOMAIN registry.user_daytypes : \A j \in DOMAIN registry.user_daytypes :
        (/\ registry.user_daytypes[i].user_id = registry.user_daytypes[j].user_id
         /\ registry.user_daytypes[i].daytype_key = registry.user_daytypes[j].daytype_key)
        => i = j

\* The from_date and to_date values that may accompany a request
RangeValues == { r.from_date : r \in Requests } \cup { r.to_date : r \in Requests }

\* C32: with period week, month or year the answer is the same whatever
\* from_date and to_date accompany the period.
C32_PeriodAlone ==
    (backend.answered /\ backend.request.period \in {"week", "month", "year"}) =>
        \A f \in RangeValues : \A t \in RangeValues :
            get_history(backend.rows, "u1",
                        [ backend.request EXCEPT !.from_date = f, !.to_date = t ],
                        backend.today)
              = backend.response

\* A session of 2024-03-01 is counted in the month although the request names
\* the range 2024-01-01 .. 2024-01-31
C32_Witness ==
    /\ backend.answered
    /\ backend.request.period = "month"
    /\ backend.request.from_date = <<2024, 1, 1>>
    /\ backend.request.to_date = <<2024, 1, 31>>
    /\ backend.today = <<2024, 3, 1>>
    /\ backend.response.total_sessions = 1
    /\ backend.response.sessions_by_day[1].date = <<2024, 3, 1>>

====
